---- MODULE Spec2Model ----
(***************************************************************************)
(* pr-tracker-rust: the record reconciler (core.rs), the sync orchestrator *)
(* (sync.rs, service.rs), the storage operations it uses (db.rs) and the   *)
(* terminal front end that runs it as a background job (tui_app.rs).       *)
(*                                                                         *)
(* A PullRequest is modelled by its key (repository, number), author,      *)
(* head_sha, ci_status, the four instants the code computes with, and      *)
(* title, which stands for the fields the code only passes through (title, *)
(* draft, updated_at, requested_reviewers).                                *)
(*                                                                         *)
(* Instants are counted in ticks; a stored timestamp is whole seconds.     *)
(* Option<T> is the empty sequence (None) or a one-element sequence.       *)
(***************************************************************************)
EXTENDS Integers, Sequences, FiniteSets, TLC

VARIABLES
    rc,                     \* SpecRec: inputs and result of one reconciler call
    store,                  \* table pull_requests: a set of rows
    tracked_repositories,   \* table tracked_repositories, in stored order
    tracked_authors,        \* table tracked_authors
    users,                  \* number of rows of table users
    auth,                   \* the `auth` commands: where each one stands
    status_call,            \* SpecCi: input and result of one map_ci_status call
    pager,                  \* SpecPages: one get_paginated call and the pages
                            \* the remote serves it
    assembly,               \* SpecAssembly: one fetch_pull_request_ci_statuses call
    daemon,                 \* SpecDaemon: the polling loop of bin/daemon.rs
    remote,                 \* the remote API's pull requests, by key
    clock,                  \* the wall clock, in ticks (Utc::now)
    job,                    \* the orchestrator invocation in progress
    log,                    \* its progress events, remote calls and writes
    runs,                   \* orchestrator invocations started so far
    envSteps,               \* changes made by the user or the remote so far
    tui,                    \* the front end: Model and the locals of run_tui_inner
    chan,                   \* the unbounded channel of BackgroundMessage values
    inflight,               \* spawned background tasks that have not finished
    ackInFlight             \* by key: the acknowledgement the front end saved
                            \* while a background job was in flight, if any

\* ------------------------------------------------------------------------
\* Bounds and value domains
\* ------------------------------------------------------------------------
MaxClock == 3
MaxRuns == 2
MaxEnvSteps == 1
MaxCheckRuns == 2

MaxPages == 3

MaxItems == 2
TicksPerSecond == 2

None == <<>>
Some(v) == <<v>>

UNIX_EPOCH == 0

CiStatuses == {"Pending", "Success", "Failure"}

\* ------------------------------------------------------------------------
\* core.rs: the reconciler
\* ------------------------------------------------------------------------
Range(s) == {s[i] : i \in DOMAIN s}

pull_request_key(pr) == <<pr.repository, pr.number>>

\* Mutant: the last record of the list is left out of the index.
index_pull_requests_by_key_without_last(prs) ==
    [k \in {pull_request_key(prs[i]) : i \in (DOMAIN prs) \ {Len(prs)}} |->
        LET first == CHOOSE i \in DOMAIN prs : pull_request_key(prs[i]) = k
        IN prs[first]]

\* HashMap collect: a later record with the same key replaces an earlier one.
index_pull_requests_by_key(prs) ==
    [k \in {pull_request_key(prs[i]) : i \in DOMAIN prs} |->
        LET last == CHOOSE i \in DOMAIN prs :
                        /\ pull_request_key(prs[i]) = k
                        /\ \A j \in DOMAIN prs :
                               pull_request_key(prs[j]) = k => j <= i
        IN prs[last]]

\* Mutant: a new comment alone is not a relevant change.
pull_request_has_relevant_changes_ignoring_comment(existing_pr, incoming_pr) ==
    LET ci_status_changed == existing_pr.ci_status # incoming_pr.ci_status
        head_sha_changed == existing_pr.head_sha # incoming_pr.head_sha
    IN <<ci_status_changed, ci_status_changed \/ head_sha_changed>>

\* Returns <<ci_status_changed, has_relevant_changes>>.
pull_request_has_relevant_changes(existing_pr, incoming_pr) ==
    LET ci_status_changed == existing_pr.ci_status # incoming_pr.ci_status
        last_comment_changed ==
            existing_pr.last_comment_at # incoming_pr.last_comment_at
        head_sha_changed == existing_pr.head_sha # incoming_pr.head_sha
    IN <<ci_status_changed,
         ci_status_changed \/ last_comment_changed \/ head_sha_changed>>

\* Mutant of apply_sync_metadata: the acknowledgement of the fresh record is
\* kept instead of the prior record's.
apply_sync_metadata_keep_incoming_ack(existing_pr, incoming_pr, ci_status_changed, now) ==
    [incoming_pr EXCEPT
        !.last_commit_at =
            IF existing_pr.head_sha # incoming_pr.head_sha
            THEN now ELSE existing_pr.last_commit_at,
        !.last_ci_status_update_at =
            IF ci_status_changed
            THEN now ELSE existing_pr.last_ci_status_update_at]

\* Mutant: last_commit_at of the fresh record is kept when the head commit
\* is unchanged.
apply_sync_metadata_keep_incoming_commit(existing_pr, incoming_pr, ci_status_changed, now) ==
    [incoming_pr EXCEPT
        !.last_acknowledged_at = existing_pr.last_acknowledged_at,
        !.last_commit_at =
            IF existing_pr.head_sha # incoming_pr.head_sha
            THEN now ELSE incoming_pr.last_commit_at,
        !.last_ci_status_update_at =
            IF ci_status_changed
            THEN now ELSE existing_pr.last_ci_status_update_at]

\* Mutant: last_ci_status_update_at is stamped on every update.
apply_sync_metadata_always_stamp_ci(existing_pr, incoming_pr, ci_status_changed, now) ==
    [incoming_pr EXCEPT
        !.last_acknowledged_at = existing_pr.last_acknowledged_at,
        !.last_commit_at =
            IF existing_pr.head_sha # incoming_pr.head_sha
            THEN now ELSE existing_pr.last_commit_at,
        !.last_ci_status_update_at = now]

apply_sync_metadata(existing_pr, incoming_pr, ci_status_changed, now) ==
    [incoming_pr EXCEPT
        !.last_acknowledged_at = existing_pr.last_acknowledged_at,
        !.last_commit_at =
            IF existing_pr.head_sha # incoming_pr.head_sha
            THEN now ELSE existing_pr.last_commit_at,
        !.last_ci_status_update_at =
            IF ci_status_changed
            THEN now ELSE existing_pr.last_ci_status_update_at]

\* The records of db_by_key whose key was not seen among the fresh records.
\* The code collects them by iterating a HashMap, so the order of the list
\* it returns is not determined by the inputs: this is the set of its
\* elements, and every enumeration of it is a possible result.
\* Mutant: every prior record is reported removed.
collect_removed_ignoring_seen(db_by_key, seen) ==
    {db_by_key[k] : k \in DOMAIN db_by_key}

collect_removed_pull_requests(db_by_key, seen) ==
    {db_by_key[k] : k \in (DOMAIN db_by_key) \ seen}

\* Mutant of the loop body: a fresh record without a prior match is dropped.
sync_loop_step_drop_new(db_by_key, incoming_pr, acc, now) ==
    LET key == pull_request_key(incoming_pr)
    IN  IF key \notin DOMAIN db_by_key
        THEN acc
        ELSE LET existing_pr == db_by_key[key]
                 ch == pull_request_has_relevant_changes(existing_pr, incoming_pr)
             IN IF ~ch[2]
                THEN acc
                ELSE [acc EXCEPT !.updated_prs =
                        Append(@, apply_sync_metadata(existing_pr, incoming_pr,
                                                     ch[1], now))]

\* Mutant: a fresh record without a prior match is reported new and updated.
sync_loop_step_new_also_updated(db_by_key, incoming_pr, acc, now) ==
    LET key == pull_request_key(incoming_pr)
    IN  IF key \notin DOMAIN db_by_key
        THEN [acc EXCEPT !.new_prs = Append(@, incoming_pr),
                         !.updated_prs = Append(@, incoming_pr)]
        ELSE LET existing_pr == db_by_key[key]
                 ch == pull_request_has_relevant_changes(existing_pr, incoming_pr)
             IN IF ~ch[2]
                THEN acc
                ELSE [acc EXCEPT !.updated_prs =
                        Append(@, apply_sync_metadata(existing_pr, incoming_pr,
                                                     ch[1], now))]

\* One iteration of the loop over prs_from_fresh_sync (core.rs 24-42).
sync_loop_step(db_by_key, incoming_pr, acc, now) ==
    LET key == pull_request_key(incoming_pr)
    IN  IF key \notin DOMAIN db_by_key
        THEN [acc EXCEPT !.new_prs = Append(@, incoming_pr)]
        ELSE LET existing_pr == db_by_key[key]
                 ch == pull_request_has_relevant_changes(existing_pr, incoming_pr)
             IN IF ~ch[2]
                THEN acc
                ELSE [acc EXCEPT !.updated_prs =
                        Append(@, apply_sync_metadata(existing_pr, incoming_pr,
                                                     ch[1], now))]

RECURSIVE sync_loop(_, _, _, _)
sync_loop(db_by_key, fresh, acc, now) ==
    IF fresh = <<>>
    THEN acc
    ELSE sync_loop(db_by_key, Tail(fresh),
                   sync_loop_step(db_by_key, Head(fresh), acc, now), now)

\* All enumerations of a finite set as sequences without repetition.
Enumerations(S) ==
    {s \in [1..Cardinality(S) -> S] : \A i, j \in DOMAIN s : i # j => s[i] # s[j]}

\* The SyncDiff values process_pull_request_sync_results can return.
process_pull_request_sync_results(prs_from_database, prs_from_fresh_sync, now) ==
    LET db_by_key == index_pull_requests_by_key(prs_from_database)
        seen == {pull_request_key(prs_from_fresh_sync[i]) :
                    i \in DOMAIN prs_from_fresh_sync}
        diff == sync_loop(db_by_key, prs_from_fresh_sync,
                          [new_prs |-> <<>>, updated_prs |-> <<>>], now)
    IN  {[new_prs |-> diff.new_prs,
          updated_prs |-> diff.updated_prs,
          removed_prs |-> removed] :
            removed \in Enumerations(collect_removed_pull_requests(db_by_key, seen))}

\* ------------------------------------------------------------------------
\* models.rs, db.rs: rows and the storage operations
\* ------------------------------------------------------------------------
OptMap(F(_), o) == IF o = None THEN None ELSE Some(F(o[1]))

as_i64(ci) ==
    CASE ci = "Pending" -> 0
      [] ci = "Success" -> 1
      [] ci = "Failure" -> 2

\* Mutant: an unknown status code is read as Success.
from_i64_other_is_success(value) ==
    CASE value = 1 -> "Success"
      [] value = 2 -> "Failure"
      [] OTHER -> "Success"

from_i64(value) ==
    CASE value = 1 -> "Success"
      [] value = 2 -> "Failure"
      [] OTHER -> "Pending"

\* DateTime::timestamp(): whole seconds, the sub-second part is dropped.
timestamp(t) == t \div TicksPerSecond

unix_to_datetime(seconds) == seconds * TicksPerSecond

\* The head-commit identity of a record in a row and back.  core.rs and
\* service.rs read and write PullRequest.head_sha, but the models.rs and db.rs
\* at hand predate the field; it is carried through storage unchanged, as the
\* reconciler's comparison of a stored with a fresh head_sha requires.
row_head_sha(pr) == pr.head_sha
model_head_sha(row) == row.head_sha

\* The values save_pr binds (db.rs 51-63).
bind_row(pr) ==
    [number |-> pr.number,
     title |-> pr.title,
     repository |-> pr.repository,
     author |-> pr.author,
     head_sha |-> row_head_sha(pr),
     ci_status |-> as_i64(pr.ci_status),
     last_comment_unix |-> timestamp(pr.last_comment_at),
     last_commit_unix |-> timestamp(pr.last_commit_at),
     last_ci_status_update_unix |-> timestamp(pr.last_ci_status_update_at),
     last_acknowledged_unix |-> OptMap(timestamp, pr.last_acknowledged_at)]

to_model(row) ==
    [number |-> row.number,
     title |-> row.title,
     repository |-> row.repository,
     author |-> row.author,
     head_sha |-> model_head_sha(row),
     ci_status |-> from_i64(row.ci_status),
     last_comment_at |-> unix_to_datetime(row.last_comment_unix),
     last_commit_at |-> unix_to_datetime(row.last_commit_unix),
     last_ci_status_update_at |-> unix_to_datetime(row.last_ci_status_update_unix),
     last_acknowledged_at |-> OptMap(unix_to_datetime, row.last_acknowledged_unix)]

RowsOf(table, repo_name) == {row \in table : row.repository = repo_name}
RowKeys(table) == {<<row.repository, row.number>> : row \in table}

\* Mutant: a plain INSERT, the row is added beside the one it should replace.
save_pr_insert_only(table, pr) == table \cup {bind_row(pr)}

\* INSERT ... ON CONFLICT(repository, number) DO UPDATE: the table after it.
save_pr(table, pr) ==
    {row \in table : ~(row.repository = pr.repository /\ row.number = pr.number)}
        \cup {bind_row(pr)}

delete_pr(table, repo_name, pr_number) ==
    {row \in table : ~(row.repository = repo_name /\ row.number = pr_number)}

\* Mutant: the rows of every repository are returned.
get_prs_by_repository_unfiltered(table, repo_name) ==
    {[i \in DOMAIN rows |-> to_model(rows[i])] : rows \in Enumerations(table)}

\* SELECT without ORDER BY: the rows in any order.
get_prs_by_repository(table, repo_name) ==
    {[i \in DOMAIN rows |-> to_model(rows[i])] :
        rows \in Enumerations(RowsOf(table, repo_name))}

get_all_prs(table) ==
    {[i \in DOMAIN rows |-> to_model(rows[i])] : rows \in Enumerations(table)}

\* ------------------------------------------------------------------------
\* The remote API and service.rs
\* ------------------------------------------------------------------------
Repos == {"r1", "r2"}
Authors == {"alice", "bob"}
Keys == {<<"r1", 1>>, <<"r1", 2>>, <<"r2", 1>>}

RemoteAuthor(k) == IF k = <<"r1", 2>> THEN "bob" ELSE "alice"

\* What the remote reports for a head commit: check runs and the combined
\* legacy state (schema::PullRequestCiStatuses).
CiReports ==
    [passing |-> [check_runs |-> <<>>, combined_state |-> "success"],
     running |-> [check_runs |-> <<[status |-> "in_progress", conclusion |-> None]>>,
                  combined_state |-> "success"],
     failing |-> [check_runs |-> <<[status |-> "completed",
                                    conclusion |-> Some("failure")]>>,
                  combined_state |-> "success"]]

FailingConclusions ==
    {"failure", "timed_out", "cancelled", "startup_failure", "action_required", "stale"}
PendingStatuses == {"queued", "in_progress", "waiting", "requested", "pending"}

has_failing_check_run(check_runs) ==
    \E i \in DOMAIN check_runs :
        /\ check_runs[i].conclusion # None
        /\ check_runs[i].conclusion[1] \in FailingConclusions

has_pending_check_run(check_runs) ==
    \E i \in DOMAIN check_runs : check_runs[i].status \in PendingStatuses

\* Mutant: a pending check run is looked for before a failing one.
map_ci_status_pending_first(ci_statuses) ==
    IF has_pending_check_run(ci_statuses.check_runs) THEN "Pending"
    ELSE IF has_failing_check_run(ci_statuses.check_runs) THEN "Failure"
    ELSE CASE ci_statuses.combined_state = "success" -> "Success"
           [] ci_statuses.combined_state \in {"failure", "error"} -> "Failure"
           [] OTHER -> "Pending"

\* Mutant: a legacy state that is not a failure counts as success.
map_ci_status_unknown_is_success(ci_statuses) ==
    IF has_failing_check_run(ci_statuses.check_runs) THEN "Failure"
    ELSE IF has_pending_check_run(ci_statuses.check_runs) THEN "Pending"
    ELSE CASE ci_statuses.combined_state \in {"failure", "error"} -> "Failure"
           [] OTHER -> "Success"

\* service.rs 93-107
map_ci_status(ci_statuses) ==
    IF has_failing_check_run(ci_statuses.check_runs) THEN "Failure"
    ELSE IF has_pending_check_run(ci_statuses.check_runs) THEN "Pending"
    ELSE CASE ci_statuses.combined_state = "success" -> "Success"
           [] ci_statuses.combined_state \in {"failure", "error"} -> "Failure"
           [] OTHER -> "Pending"

\* The newest comment of a pull request, UNIX_EPOCH when it has none.  The
\* remote reports instants in whole seconds.
latest_comment_time(pr_details) ==
    IF pr_details.comment_seconds = None THEN UNIX_EPOCH
    ELSE unix_to_datetime(pr_details.comment_seconds[1])

\* service.rs 27-42: the record built from what the remote reports for k.
pull_request_from(pr_details, k) ==
    [number |-> k[2],
     title |-> pr_details.title,
     repository |-> k[1],
     author |-> RemoteAuthor(k),
     head_sha |-> pr_details.head_sha,
     ci_status |-> map_ci_status(CiReports[pr_details.ci]),
     last_comment_at |-> latest_comment_time(pr_details),
     last_commit_at |-> UNIX_EPOCH,
     last_ci_status_update_at |-> UNIX_EPOCH,
     last_acknowledged_at |-> None]

\* A successful fetch_pull_request_details for key k (service.rs 7-43).
fetch_pull_request_details(k) == pull_request_from(remote[k], k)

should_track_pr(k, authors_to_track) == RemoteAuthor(k) \in authors_to_track

RECURSIVE Descending(_)
Descending(ns) ==
    IF ns = {} THEN <<>>
    ELSE LET n == CHOOSE x \in ns : \A y \in ns : y <= x
         IN <<n>> \o Descending(ns \ {n})

\* The open pull requests of a repository, newest first.
fetch_open_pull_requests(repo_name) ==
    LET ns == Descending({k[2] : k \in {x \in Keys : x[1] = repo_name /\ remote[x].open}})
    IN [i \in DOMAIN ns |-> <<repo_name, ns[i]>>]

RemoteCall(repo_name, number) ==
    [kind |-> "remote", repository |-> repo_name, number |-> number]

WriteOp(op, repo_name, number) ==
    [kind |-> "write", op |-> op, repository |-> repo_name, number |-> number]

Event(e) == [kind |-> "event", ev |-> e]
\* A remote call or storage operation that returned an error.
Failure(what, repo_name, number) ==
    [kind |-> "failure", what |-> what, repository |-> repo_name, number |-> number]

\* Mutant: pull requests of every author are kept.
tracked_listing_all_authors(repo_name, authors_to_track) ==
    fetch_open_pull_requests(repo_name)

\* The listed pull requests that survive should_track_pr (service.rs 53-56).
tracked_listing(repo_name, authors_to_track) ==
    LET keep(k) == should_track_pr(k, authors_to_track)
    IN SelectSeq(fetch_open_pull_requests(repo_name), keep)

\* The outcomes of fetch_tracked_pull_requests: success with one record per
\* surviving pull request, or the error of the first failing remote call (the
\* listing, number 0, or the details of the j-th surviving pull request).
fetch_tracked_pull_requests(repo_name, authors_to_track) ==
    LET tracked == tracked_listing(repo_name, authors_to_track)
        calls(j) == <<RemoteCall(repo_name, 0)>> \o
                    [i \in 1..j |-> RemoteCall(repo_name, tracked[i][2])]
    IN  {[ok |-> TRUE,
          prs |-> [i \in DOMAIN tracked |-> fetch_pull_request_details(tracked[i])],
          calls |-> calls(Len(tracked))]}
        \cup {[ok |-> FALSE, prs |-> <<>>, calls |-> calls(j)] : j \in 0..Len(tracked)}

\* Utc::now(): the clock does not run backwards.
NowChoices == {t \in {clock, clock + 1} : t <= MaxClock}

\* ------------------------------------------------------------------------
\* sync.rs: the orchestrator.  One action per stretch of code between two
\* awaited remote or storage operations.
\* ------------------------------------------------------------------------
SyncRunSummaryDefault ==
    [synced_repositories |-> 0, new_prs |-> 0, updated_prs |-> 0, deleted_prs |-> 0]
QuickRefreshSummaryDefault == [total_prs |-> 0, refreshed_prs |-> 0, failed_prs |-> 0]

EmptyDiff == [new_prs |-> <<>>, updated_prs |-> <<>>, removed_prs |-> <<>>]

Ok(summary) == [ok |-> TRUE, summary |-> summary]
Err(what) == [ok |-> FALSE, error |-> what]

IdleJob ==
    [kind |-> "idle", pc |-> "idle", spawned |-> FALSE,
     repositories |-> <<>>, authors |-> {}, loaded |-> FALSE,
     index |-> 0, fresh_prs |-> <<>>, fetched |-> [r \in Repos |-> None],
     diff |-> EmptyDiff, pos |-> 0,
     existing_prs |-> <<>>, refreshed |-> None,
     summary |-> SyncRunSummaryDefault, result |-> None]

NewJob(kind, pc, spawned) ==
    [IdleJob EXCEPT !.kind = kind, !.pc = pc, !.spawned = spawned,
        !.summary = IF kind = "quick" THEN QuickRefreshSummaryDefault
                    ELSE SyncRunSummaryDefault]

Return(j, res) == [j EXCEPT !.pc = "done", !.result = Some(res)]

\* A spawned task runs while the runtime lives.  main returns as soon as the
\* loop has ended; a step the task takes in between is a step it could have
\* taken before the loop ended, so none is modelled there.
TaskMayRun == job.spawned => tui.running

JobAt(kind, pc) == job.kind = kind /\ job.pc = pc /\ TaskMayRun

feVars == <<tui, inflight, ackInFlight>>

\* The variables of the specifications of single functions and of the
\* daemon, and the value each has where it is not running.
pureVars == <<status_call, pager, assembly, daemon>>

AssemblyIdle ==
    [pc |-> "idle", repo_name |-> "", pr_id |-> 0, head_sha |-> None,
     combined_state |-> None, check_runs |-> <<>>, next_url |-> None,
     calls |-> <<>>, result |-> None]

\* The daemon is not running.  `syncs` and `failed` count the syncs that have
\* returned and those that returned an error, `last` is the latest result.
DaemonOff == [pc |-> "off", syncs |-> 0, failed |-> 0, slept |-> 0, last |-> None]

StatusCallIdle == [ci_statuses |-> None, done |-> TRUE, result |-> None]

PagerIdle == [pages |-> <<>>, next_url |-> None, items |-> <<>>, requested |-> <<>>,
              result |-> None]

\* The `auth` commands that may run, and one that has not been started.
AuthProcesses == {"auth1", "auth2", "auth3"}

AuthIdle == [p \in AuthProcesses |-> [pc |-> "idle", error |-> None]]

Progress == [type |-> "Progress"]

\* The progress callback.  A spawned job's callback sends one Progress
\* message per event (tui_app.rs 805-807, 820-822); the callback of a job
\* run in the foreground sends nothing.
Callback ==
    LET emitted == Cardinality({i \in DOMAIN log' :
                                   i > Len(log) /\ log'[i].kind = "event"})
    IN chan' = IF job.spawned THEN chan \o [i \in 1..emitted |-> Progress] ELSE chan

FullSyncStarted(total) == [type |-> "FullSyncStarted", total_repositories |-> total]
\* Mutant: the loop counter is reported as it is, counting from zero.
FullSyncRepositoryStarted_zero_based(repo, index, total) ==
    [type |-> "FullSyncRepositoryStarted", repository |-> repo,
     repository_index |-> index - 1, total_repositories |-> total]

FullSyncRepositoryStarted(repo, index, total) ==
    [type |-> "FullSyncRepositoryStarted", repository |-> repo,
     repository_index |-> index, total_repositories |-> total]

\* Mutant: the new and updated counts change places.
FullSyncRepositoryCompleted_counts_swapped(repo, index, total, n, u, d) ==
    [type |-> "FullSyncRepositoryCompleted", repository |-> repo,
     repository_index |-> index, total_repositories |-> total,
     new_prs |-> u, updated_prs |-> n, deleted_prs |-> d]

FullSyncRepositoryCompleted(repo, index, total, n, u, d) ==
    [type |-> "FullSyncRepositoryCompleted", repository |-> repo,
     repository_index |-> index, total_repositories |-> total,
     new_prs |-> n, updated_prs |-> u, deleted_prs |-> d]

QuickRefreshStarted(total) == [type |-> "QuickRefreshStarted", total_prs |-> total]

QuickRefreshPullRequestStarted(repo, number, index, total) ==
    [type |-> "QuickRefreshPullRequestStarted", repository |-> repo,
     pr_number |-> number, pr_index |-> index, total_prs |-> total]

QuickRefreshPullRequestCompleted(repo, number, index, total, ok, error) ==
    [type |-> "QuickRefreshPullRequestCompleted", repository |-> repo,
     pr_number |-> number, pr_index |-> index, total_prs |-> total,
     ok |-> ok, error |-> error]

\* Mutant: only the repository list is tested.
nothing_to_sync_repositories_only(repositories, authors) == repositories = <<>>

\* sync.rs 83: the rate-limit guard.
nothing_to_sync(repositories, authors) == repositories = <<>> \/ authors = {}

\* sync.rs 75-87: load the tracked sets, emit full-sync-started, return the
\* zero summary when there is nothing to sync.
FS_Begin ==
    /\ JobAt("full", "begin")
    /\ \/ /\ job' = Return(job, Err("storage"))
          /\ log' = Append(log, Failure("storage", "", 0))
       \/ LET loaded == [job EXCEPT !.repositories = tracked_repositories,
                                    !.authors = tracked_authors,
                                    !.loaded = TRUE]
          IN /\ log' = Append(log, Event(FullSyncStarted(Len(tracked_repositories))))
             /\ job' = IF nothing_to_sync(tracked_repositories, tracked_authors)
                       THEN Return(loaded, Ok(loaded.summary))
                       ELSE [loaded EXCEPT !.pc = "fetch", !.index = 1]
    /\ UNCHANGED <<rc, store, tracked_repositories, tracked_authors, users, auth, pureVars, remote,
                   clock, runs, envSteps>>
    /\ UNCHANGED feVars
    /\ Callback

\* Mutant: a failed fetch skips the repository and the run goes on.
after_fetch_error_skip_repository(j) ==
    IF j.index < Len(j.repositories)
    THEN [j EXCEPT !.index = @ + 1]
    ELSE Return(j, Ok(j.summary))

\* sync.rs 95: the `?` on the fetch.
after_fetch_error(j) == Return(j, Err("remote"))

\* sync.rs 89-95: emit repository-started and fetch the fresh records.
FS_FetchRepo ==
    /\ JobAt("full", "fetch")
    /\ LET repo_name == job.repositories[job.index]
       IN \E out \in fetch_tracked_pull_requests(repo_name, job.authors) :
            /\ log' = log \o <<Event(FullSyncRepositoryStarted(
                                  repo_name, job.index, Len(job.repositories)))>>
                          \o out.calls
                          \o (IF out.ok THEN <<>>
                              ELSE <<Failure("remote", repo_name, 0)>>)
            /\ job' = IF out.ok
                      THEN [job EXCEPT !.pc = "read", !.fresh_prs = out.prs,
                                       !.fetched[repo_name] = Some(out.prs)]
                      ELSE after_fetch_error(job)
    /\ UNCHANGED <<rc, store, tracked_repositories, tracked_authors, users, auth, pureVars, remote,
                   clock, runs, envSteps>>
    /\ UNCHANGED feVars
    /\ Callback

\* sync.rs 96-102: read the persisted records of the repository and reconcile.
FS_ReadExisting ==
    /\ JobAt("full", "read")
    /\ \/ /\ job' = Return(job, Err("storage"))
          /\ log' = Append(log, Failure("storage", job.repositories[job.index], 0))
          /\ clock' = clock
       \/ \E existing_prs \in get_prs_by_repository(store, job.repositories[job.index]),
             now \in NowChoices :
            \E diff \in process_pull_request_sync_results(
                            existing_prs, job.fresh_prs, now) :
                /\ job' = [job EXCEPT !.pc = "apply", !.diff = diff, !.pos = 1]
                /\ log' = log
                /\ clock' = now
    /\ UNCHANGED <<rc, store, tracked_repositories, tracked_authors, users, auth, pureVars, remote,
                   runs, envSteps>>
    /\ UNCHANGED feVars
    /\ Callback

\* Mutant: a failed write is ignored and the run goes on.
after_write_error_ignore(j) == [j EXCEPT !.pos = @ + 1]

\* sync.rs 105, 108, 111: the `?` on save_pr and delete_pr.
after_write_error(j) == Return(j, Err("storage"))

\* sync.rs 104-106
FS_SaveNew ==
    /\ JobAt("full", "apply")
    /\ job.pos <= Len(job.diff.new_prs)
    /\ LET pr == job.diff.new_prs[job.pos]
       IN \/ /\ store' = save_pr(store, pr)
             /\ log' = Append(log, WriteOp("save", pr.repository, pr.number))
             /\ job' = [job EXCEPT !.pos = @ + 1]
          \/ /\ job' = after_write_error(job)
             /\ log' = Append(log, Failure("storage", pr.repository, pr.number))
             /\ store' = store
    /\ UNCHANGED <<rc, tracked_repositories, tracked_authors, users, auth, pureVars, remote,
                   clock, runs, envSteps>>
    /\ UNCHANGED feVars
    /\ Callback

\* sync.rs 107-109
FS_SaveUpdated ==
    /\ JobAt("full", "apply")
    /\ job.pos > Len(job.diff.new_prs)
    /\ job.pos <= Len(job.diff.new_prs) + Len(job.diff.updated_prs)
    /\ LET pr == job.diff.updated_prs[job.pos - Len(job.diff.new_prs)]
       IN \/ /\ store' = save_pr(store, pr)
             /\ log' = Append(log, WriteOp("save", pr.repository, pr.number))
             /\ job' = [job EXCEPT !.pos = @ + 1]
          \/ /\ job' = after_write_error(job)
             /\ log' = Append(log, Failure("storage", pr.repository, pr.number))
             /\ store' = store
    /\ UNCHANGED <<rc, tracked_repositories, tracked_authors, users, auth, pureVars, remote,
                   clock, runs, envSteps>>
    /\ UNCHANGED feVars
    /\ Callback

\* Mutant: a removed record is left in the table.
delete_removed_noop(table, pr) == table

\* sync.rs 111
delete_removed(table, pr) == delete_pr(table, pr.repository, pr.number)

\* sync.rs 110-112
FS_DeleteRemoved ==
    /\ JobAt("full", "apply")
    /\ job.pos > Len(job.diff.new_prs) + Len(job.diff.updated_prs)
    /\ job.pos <= Len(job.diff.new_prs) + Len(job.diff.updated_prs)
                    + Len(job.diff.removed_prs)
    /\ LET pr == job.diff.removed_prs[
                    job.pos - Len(job.diff.new_prs) - Len(job.diff.updated_prs)]
       IN \/ /\ store' = delete_removed(store, pr)
             /\ log' = Append(log, WriteOp("delete", pr.repository, pr.number))
             /\ job' = [job EXCEPT !.pos = @ + 1]
          \/ /\ job' = after_write_error(job)
             /\ log' = Append(log, Failure("storage", pr.repository, pr.number))
             /\ store' = store
    /\ UNCHANGED <<rc, tracked_repositories, tracked_authors, users, auth, pureVars, remote,
                   clock, runs, envSteps>>
    /\ UNCHANGED feVars
    /\ Callback

\* sync.rs 114-128: add to the summary, emit repository-completed, go on to
\* the next repository or return the summary.
FS_RepoCompleted ==
    /\ JobAt("full", "apply")
    /\ job.pos > Len(job.diff.new_prs) + Len(job.diff.updated_prs)
                    + Len(job.diff.removed_prs)
    /\ LET summary ==
              [synced_repositories |-> job.summary.synced_repositories + 1,
               new_prs |-> job.summary.new_prs + Len(job.diff.new_prs),
               updated_prs |-> job.summary.updated_prs + Len(job.diff.updated_prs),
               deleted_prs |-> job.summary.deleted_prs + Len(job.diff.removed_prs)]
           counted == [job EXCEPT !.summary = summary]
       IN /\ log' = Append(log, Event(FullSyncRepositoryCompleted(
                        job.repositories[job.index], job.index, Len(job.repositories),
                        Len(job.diff.new_prs), Len(job.diff.updated_prs),
                        Len(job.diff.removed_prs))))
          /\ job' = IF job.index < Len(job.repositories)
                    THEN [counted EXCEPT !.pc = "fetch", !.index = @ + 1]
                    ELSE Return(counted, Ok(summary))
    /\ UNCHANGED <<rc, store, tracked_repositories, tracked_authors, users, auth, pureVars, remote,
                   clock, runs, envSteps>>
    /\ UNCHANGED feVars
    /\ Callback

\* The end of one iteration of the quick-refresh loop.
NextItem(j) ==
    IF j.index < Len(j.existing_prs)
    THEN [j EXCEPT !.pc = "qfetch", !.index = @ + 1, !.refreshed = None]
    ELSE Return([j EXCEPT !.refreshed = None], Ok(j.summary))

\* sync.rs 146-156: load every persisted record, emit quick-refresh-started.
QR_Begin ==
    /\ JobAt("quick", "begin")
    /\ \/ /\ job' = Return(job, Err("storage"))
          /\ log' = Append(log, Failure("storage", "", 0))
       \/ \E existing_prs \in get_all_prs(store) :
            LET loaded == [job EXCEPT !.existing_prs = existing_prs,
                                     !.loaded = TRUE,
                                     !.summary.total_prs = Len(existing_prs)]
            IN /\ log' = Append(log, Event(QuickRefreshStarted(Len(existing_prs))))
               /\ job' = IF existing_prs = <<>>
                         THEN Return(loaded, Ok(loaded.summary))
                         ELSE [loaded EXCEPT !.pc = "qfetch", !.index = 1]
    /\ UNCHANGED <<rc, store, tracked_repositories, tracked_authors, users, auth, pureVars, remote,
                   clock, runs, envSteps>>
    /\ UNCHANGED feVars
    /\ Callback

\* Mutant: a failed re-fetch ends the run.
after_refetch_error_abort(j, existing_pr) == Return(j, Err("remote"))

\* Mutant: the failure is not counted.
after_refetch_error_uncounted(j, existing_pr) == NextItem(j)

\* sync.rs 193-195: count the failure; the loop goes on.
after_refetch_error(j, existing_pr) ==
    NextItem([j EXCEPT !.summary.failed_prs = @ + 1])

\* Mutant: the acknowledgement of the fetched record is kept.
refreshed_metadata_keep_fetched_ack(existing_pr, refreshed_pr, now) ==
    [refreshed_pr EXCEPT
        !.last_ci_status_update_at =
            IF existing_pr.ci_status # refreshed_pr.ci_status
            THEN now ELSE existing_pr.last_ci_status_update_at]

\* sync.rs 173-179: carry the acknowledgement over and restamp the CI status.
refreshed_metadata(existing_pr, refreshed_pr, now) ==
    [refreshed_pr EXCEPT
        !.last_acknowledged_at = existing_pr.last_acknowledged_at,
        !.last_ci_status_update_at =
            IF existing_pr.ci_status # refreshed_pr.ci_status
            THEN now ELSE existing_pr.last_ci_status_update_at]

\* sync.rs 157-179, 193-204: emit item-started and re-fetch the record.
QR_Fetch ==
    /\ JobAt("quick", "qfetch")
    /\ LET existing_pr == job.existing_prs[job.index]
           key == pull_request_key(existing_pr)
           started == <<Event(QuickRefreshPullRequestStarted(
                            existing_pr.repository, existing_pr.number, job.index,
                            job.summary.total_prs)),
                        RemoteCall(existing_pr.repository, existing_pr.number)>>
       IN \/ \E now \in NowChoices :
               LET refreshed_pr == fetch_pull_request_details(key)
                   read_clock == existing_pr.ci_status # refreshed_pr.ci_status
               IN /\ ~read_clock => now = clock
                  /\ clock' = now
                  /\ job' = [job EXCEPT !.pc = "qsave",
                                !.refreshed = Some(refreshed_metadata(
                                                  existing_pr, refreshed_pr, now))]
                  /\ log' = log \o started
          \/ /\ job' = after_refetch_error(job, existing_pr)
             /\ log' = log \o started \o
                       <<Failure("remote", existing_pr.repository, existing_pr.number),
                         Event(QuickRefreshPullRequestCompleted(
                            existing_pr.repository, existing_pr.number, job.index,
                            job.summary.total_prs, FALSE, Some("remote")))>>
             /\ clock' = clock
    /\ UNCHANGED <<rc, store, tracked_repositories, tracked_authors, users, auth, pureVars, remote,
                   runs, envSteps>>
    /\ UNCHANGED feVars
    /\ Callback

\* sync.rs 181: the `?` on save_pr.
after_refresh_save_error(j) == Return(j, Err("storage"))

\* Mutant: a record whose pull request is no longer open is pruned.
save_refreshed_prune_closed(table, refreshed_pr) ==
    IF remote[pull_request_key(refreshed_pr)].open
    THEN save_pr(table, refreshed_pr)
    ELSE delete_pr(table, refreshed_pr.repository, refreshed_pr.number)

\* sync.rs 181: the table after repo.save_pr(&refreshed_pr).
save_refreshed(table, refreshed_pr) == save_pr(table, refreshed_pr)

\* sync.rs 181-191: upsert the refreshed record, emit item-completed.
QR_Save ==
    /\ JobAt("quick", "qsave")
    /\ LET refreshed_pr == job.refreshed[1]
       IN \/ /\ store' = save_refreshed(store, refreshed_pr)
             /\ log' = log \o
                   <<WriteOp("save", refreshed_pr.repository, refreshed_pr.number),
                     Event(QuickRefreshPullRequestCompleted(
                        refreshed_pr.repository, refreshed_pr.number, job.index,
                        job.summary.total_prs, TRUE, None))>>
             /\ job' = NextItem([job EXCEPT !.summary.refreshed_prs = @ + 1])
          \/ /\ job' = after_refresh_save_error(job)
             /\ log' = Append(log, Failure("storage", refreshed_pr.repository,
                                           refreshed_pr.number))
             /\ store' = store
    /\ UNCHANGED <<rc, tracked_repositories, tracked_authors, users, auth, pureVars, remote,
                   clock, runs, envSteps>>
    /\ UNCHANGED feVars
    /\ Callback

\* ------------------------------------------------------------------------
\* Spec: orchestrator invocations running alone (the one-shot command and
\* the daemon), with the remote and the tracked sets changing between them
\* ------------------------------------------------------------------------
NoJobRunning == job.pc \in {"idle", "done"}

\* sync_all_tracked is called (cli_app.rs handle_sync, daemon.rs main).
StartFullSync ==
    /\ NoJobRunning
    /\ runs < MaxRuns
    /\ job' = NewJob("full", "begin", FALSE)
    /\ log' = <<>>
    /\ runs' = runs + 1
    /\ UNCHANGED <<rc, store, tracked_repositories, tracked_authors, users, auth, pureVars, remote,
                   clock, envSteps>>
    /\ UNCHANGED <<feVars, chan>>

\* refresh_existing_pull_requests is called.
StartQuickRefresh ==
    /\ NoJobRunning
    /\ runs < MaxRuns
    /\ job' = NewJob("quick", "begin", FALSE)
    /\ log' = <<>>
    /\ runs' = runs + 1
    /\ UNCHANGED <<rc, store, tracked_repositories, tracked_authors, users, auth, pureVars, remote,
                   clock, envSteps>>
    /\ UNCHANGED <<feVars, chan>>

EnvMayStep == NoJobRunning /\ envSteps < MaxEnvSteps

\* The remote: a commit is pushed to an open pull request.
RemotePush ==
    /\ EnvMayStep
    /\ \E k \in Keys :
          /\ remote[k].open /\ remote[k].head_sha = "sha-1"
          /\ remote' = [remote EXCEPT ![k].head_sha = "sha-2"]
    /\ envSteps' = envSteps + 1
    /\ UNCHANGED <<rc, store, tracked_repositories, tracked_authors, users, auth, pureVars, clock,
                   job, log, runs>>
    /\ UNCHANGED <<feVars, chan>>

\* The remote: the checks of a pull request report something else.
RemoteCiChange ==
    /\ EnvMayStep
    /\ \E k \in Keys, ci \in DOMAIN CiReports :
          /\ remote[k].open /\ remote[k].ci # ci
          /\ remote' = [remote EXCEPT ![k].ci = ci]
    /\ envSteps' = envSteps + 1
    /\ UNCHANGED <<rc, store, tracked_repositories, tracked_authors, users, auth, pureVars, clock,
                   job, log, runs>>
    /\ UNCHANGED <<feVars, chan>>

\* The remote: a comment is written on a pull request.
RemoteComment ==
    /\ EnvMayStep
    /\ \E k \in Keys :
          /\ remote[k].open /\ remote[k].comment_seconds = None
          /\ remote' = [remote EXCEPT ![k].comment_seconds = Some(timestamp(clock))]
    /\ envSteps' = envSteps + 1
    /\ UNCHANGED <<rc, store, tracked_repositories, tracked_authors, users, auth, pureVars, clock,
                   job, log, runs>>
    /\ UNCHANGED <<feVars, chan>>

\* The remote: a pull request is closed or merged.
RemoteClose ==
    /\ EnvMayStep
    /\ \E k \in Keys :
          /\ remote[k].open
          /\ remote' = [remote EXCEPT ![k].open = FALSE]
    /\ envSteps' = envSteps + 1
    /\ UNCHANGED <<rc, store, tracked_repositories, tracked_authors, users, auth, pureVars, clock,
                   job, log, runs>>
    /\ UNCHANGED <<feVars, chan>>

\* bin/tui.rs 136-148: a front end that has just loaded the list stamps a
\* record with the current instant and upserts it.
Acknowledge ==
    /\ EnvMayStep
    /\ \E row \in store, now \in NowChoices :
          /\ store' = save_pr(store, [to_model(row) EXCEPT
                                          !.last_acknowledged_at = Some(now)])
          /\ clock' = now
    /\ envSteps' = envSteps + 1
    /\ UNCHANGED <<rc, tracked_repositories, tracked_authors, users, auth, pureVars, remote,
                   job, log, runs>>
    /\ UNCHANGED <<feVars, chan>>

\* cli_app.rs handle_authors, AuthorCommand::Remove.
UntrackAuthor ==
    /\ EnvMayStep
    /\ \E a \in tracked_authors : tracked_authors' = tracked_authors \ {a}
    /\ envSteps' = envSteps + 1
    /\ UNCHANGED <<rc, store, tracked_repositories, users, auth, pureVars, remote, clock,
                   job, log, runs>>
    /\ UNCHANGED <<feVars, chan>>

\* cli_app.rs handle_repositories, RepositoryCommand::Remove.
UntrackRepository ==
    /\ EnvMayStep
    /\ \E r \in Range(tracked_repositories) :
          tracked_repositories' = SelectSeq(tracked_repositories, LAMBDA x : x # r)
    /\ envSteps' = envSteps + 1
    /\ UNCHANGED <<rc, store, tracked_authors, users, auth, pureVars, remote, clock,
                   job, log, runs>>
    /\ UNCHANGED <<feVars, chan>>

\* tui_app.rs 84-95; the pane focus, the pane cursors and the search query
\* only steer the drawing and are left out.
AuthorsScreenStateNew ==
    [tracked |-> {}, untracked |-> {}, loading |-> TRUE, error |-> None]

\* No front end is running.  `refused` notes that a request to start a job
\* was turned down since the last job was spawned.
TuiOff ==
    [running |-> FALSE, prs |-> <<>>, cursor |-> 0, view_mode |-> "Active",
     screen |-> "PrList", authors_screen |-> AuthorsScreenStateNew,
     active_job |-> None, refused |-> FALSE]

RcIdle == [prior |-> <<>>, fresh |-> <<>>, now |-> 0, done |-> TRUE, diff |-> EmptyDiff]

RemoteInit ==
    [k \in Keys |->
        [open |-> TRUE, title |-> "t", head_sha |-> "sha-1",
         ci |-> IF k = <<"r1", 1>> THEN "passing" ELSE "running",
         comment_seconds |-> None]]

Init ==
    /\ rc = RcIdle
    /\ store = {}
    /\ tracked_repositories \in {<<>>, <<"r1">>, <<"r1", "r2">>, <<"r2", "r1">>}
    /\ tracked_authors \in {{}, {"alice"}, {"alice", "bob"}}
    /\ users = 1
    /\ auth = AuthIdle
    /\ status_call = StatusCallIdle
    /\ pager = PagerIdle
    /\ assembly = AssemblyIdle
    /\ daemon = DaemonOff
    /\ remote = RemoteInit
    /\ clock = 1
    /\ job = IdleJob
    /\ log = <<>>
    /\ runs = 0
    /\ envSteps = 0
    /\ tui = TuiOff
    /\ chan = <<>>
    /\ inflight = 0
    /\ ackInFlight = [k \in Keys |-> None]

vars == <<rc, store, tracked_repositories, tracked_authors, users, auth, pureVars, remote, clock,
          job, log, runs, envSteps, tui, chan, inflight, ackInFlight>>

Next ==
    \/ StartFullSync \/ FS_Begin \/ FS_FetchRepo \/ FS_ReadExisting
    \/ FS_SaveNew \/ FS_SaveUpdated \/ FS_DeleteRemoved \/ FS_RepoCompleted
    \/ StartQuickRefresh \/ QR_Begin \/ QR_Fetch \/ QR_Save
    \/ RemotePush \/ RemoteCiChange \/ RemoteComment \/ RemoteClose
    \/ UntrackAuthor \/ UntrackRepository \/ Acknowledge

Spec == Init /\ [][Next]_vars

\* The instant of the earlier sync that a stored record's stamps come from.
EarlierSync == TicksPerSecond

\* The record of r1 #1 as earlier syncs have left it: created by one full
\* sync, then updated by another that found a new head commit and a changed
\* CI status.
StampedRecord ==
    [pull_request_from(RemoteInit[<<"r1", 1>>], <<"r1", 1>>) EXCEPT
        !.last_commit_at = EarlierSync,
        !.last_ci_status_update_at = EarlierSync]

\* The orchestrator started on a store that earlier runs have filled.
ResyncInit ==
    /\ rc = RcIdle
    /\ store \in {{}, {bind_row(StampedRecord)}}
    /\ tracked_repositories = <<"r1">>
    /\ tracked_authors = {"alice"}
    /\ users = 1
    /\ auth = AuthIdle
    /\ status_call = StatusCallIdle
    /\ pager = PagerIdle
    /\ assembly = AssemblyIdle
    /\ daemon = DaemonOff
    /\ remote = RemoteInit
    /\ clock = EarlierSync
    /\ job = IdleJob
    /\ log = <<>>
    /\ runs = 0
    /\ envSteps = 0
    /\ tui = TuiOff
    /\ chan = <<>>
    /\ inflight = 0
    /\ ackInFlight = [k \in Keys |-> None]

SpecResync == ResyncInit /\ [][Next]_vars

\* ------------------------------------------------------------------------
\* tui_app.rs: the front end and its background jobs (SpecTui).  `tui` holds
\* the Model and the locals of run_tui_inner; `job` is the spawned task;
\* `chan` is the unbounded channel from the task to the loop.
\* ------------------------------------------------------------------------
\* A record counts as acknowledged once the user has set last_acknowledged_at.
is_acknowledged(pr) == pr.last_acknowledged_at # None

\* tui_app.rs 142-159; positions are counted from 1 here, the cursor from 0.
filtered_indices(model) ==
    LET include(index) ==
            IF model.view_mode = "Active"
            THEN ~is_acknowledged(model.prs[index])
            ELSE is_acknowledged(model.prs[index])
    IN SelectSeq([i \in DOMAIN model.prs |-> i], include)

\* tui_app.rs 161-163.
selected_index(model, indices) ==
    IF model.cursor < Len(indices) THEN Some(indices[model.cursor + 1]) ELSE None

\* Mutant: a cursor equal to the length is taken as in range.
ensure_cursor_in_range_off_by_one(model, len) ==
    IF len = 0 THEN [model EXCEPT !.cursor = 0]
    ELSE IF model.cursor > len THEN [model EXCEPT !.cursor = len - 1]
    ELSE model

\* tui_app.rs 165-174.
ensure_cursor_in_range(model, len) ==
    IF len = 0 THEN [model EXCEPT !.cursor = 0]
    ELSE IF model.cursor >= len THEN [model EXCEPT !.cursor = len - 1]
    ELSE model

\* tui_app.rs 176-182.
toggle_view(model) ==
    [model EXCEPT !.view_mode = IF @ = "Active" THEN "Acknowledged" ELSE "Active",
                  !.cursor = 0]

\* filtered_indices followed by ensure_cursor_in_range, as every list handler
\* does first.
clamped(model) == ensure_cursor_in_range(model, Len(filtered_indices(model)))

\* Mutant: the first stored user is returned whatever the number of rows.
get_user_first_row(stored) ==
    Ok(IF stored >= 1 THEN Some("me") ELSE None)

\* db.rs 111-124: more than one stored user is an error, else the user if any.
get_user(stored) ==
    IF stored > 1 THEN Err("config")
    ELSE Ok(IF stored = 1 THEN Some("me") ELSE None)

\* The members of the user's teams, as the remote lists them.
TeamMembers == {"me", "alice", "carol"}

\* Mutant: keys of the list screen are handled only while no job is in flight.
TuiOnPrList_when_idle ==
    tui.running /\ tui.screen = "PrList" /\ tui.active_job = None

TuiOnPrList == tui.running /\ tui.screen = "PrList"

TuiOnAuthors == tui.running /\ tui.screen = "AuthorsFromTeams"

\* Variables the background task never touches and the loop never touches.
tuiEnvVars == <<rc, tracked_repositories, users, auth, pureVars, remote, envSteps>>

\* tui_app.rs 192-199: run() loads the list and enters the loop.
TuiStart(prs) ==
    [TuiOff EXCEPT !.running = TRUE, !.prs = prs]

\* The records stored by an earlier full sync of the tracked sets.
SyncedStore(repositories, authors) ==
    {bind_row(pull_request_from(RemoteInit[k], k)) :
        k \in {x \in Keys : /\ x[1] \in Range(repositories)
                            /\ should_track_pr(x, authors)}}

\* The remote as the earlier sync saw it, or with one change since.
TuiRemotes ==
    {RemoteInit,
     [RemoteInit EXCEPT ![<<"r1", 1>>].ci = "failing"],
     [RemoteInit EXCEPT ![<<"r1", 1>>].open = FALSE]}

TuiInit ==
    /\ rc = RcIdle
    /\ remote \in TuiRemotes
    /\ tracked_repositories = <<"r1">>
    /\ tracked_authors = {"alice"}
    /\ users \in {0, 1, 2}
    /\ auth = AuthIdle
    /\ status_call = StatusCallIdle
    /\ pager = PagerIdle
    /\ assembly = AssemblyIdle
    /\ daemon = DaemonOff
    /\ store \in {{}, SyncedStore(tracked_repositories, tracked_authors)}
    /\ clock = 1
    /\ job = IdleJob
    /\ log = <<>>
    /\ runs = 0
    /\ envSteps = 0
    /\ tui \in {TuiStart(prs) : prs \in get_all_prs(store)}
    /\ chan = <<>>
    /\ inflight = 0
    /\ ackInFlight = [k \in Keys |-> None]

\* --- the spawned task ---------------------------------------------------

\* tui_app.rs 800-803, 815-818, 827-830: the task first loads the credential.
BG_GetUser ==
    /\ job.spawned /\ job.pc = "get_user" /\ TaskMayRun
    /\ \/ /\ job' = Return(job, Err("storage"))
          /\ log' = Append(log, Failure("storage", "", 0))
       \/ LET user == get_user(users)
              missing == ~user.ok \/ user.summary = None
          IN /\ job' = IF missing THEN Return(job, Err("config"))
                       ELSE [job EXCEPT !.pc = IF job.kind = "teams"
                                                THEN "tfetch" ELSE "begin"]
             /\ log' = IF missing THEN Append(log, Failure("config", "", 0)) ELSE log
    /\ UNCHANGED <<store, tracked_authors, clock, runs, chan>>
    /\ UNCHANGED <<tuiEnvVars, feVars>>

\* tui_app.rs 832-862: the tracked logins and the team members that are
\* neither tracked nor the user; both lists are sorted, so each is given by
\* its set.
TF_Fetch ==
    /\ job.spawned /\ JobAt("teams", "tfetch")
    /\ \/ /\ job' = Return(job, Err("storage"))
          /\ log' = Append(log, Failure("storage", "", 0))
       \/ /\ job' = Return(job, Err("remote"))
          /\ log' = Append(log, Failure("remote", "", 0))
       \/ /\ job' = Return(job, Ok([tracked |-> tracked_authors,
                                     untracked |-> (TeamMembers \ {"me"})
                                                       \ tracked_authors]))
          /\ log' = log
    /\ UNCHANGED <<store, tracked_authors, clock, runs, chan>>
    /\ UNCHANGED <<tuiEnvVars, feVars>>

FinishedMessage(kind, result) ==
    [type |-> CASE kind = "full" -> "FullSyncFinished"
                [] kind = "quick" -> "QuickRefreshFinished"
                [] OTHER -> "TeamsFetchFinished",
     result |-> result]

\* tui_app.rs 777, 785, 792: the task sends its result and ends.
BG_SendFinished ==
    /\ job.spawned /\ job.pc = "done" /\ TaskMayRun
    /\ chan' = Append(chan, FinishedMessage(job.kind, job.result[1]))
    /\ job' = IdleJob
    /\ inflight' = inflight - 1
    /\ UNCHANGED <<store, tracked_authors, clock, runs, log, tui, ackInFlight>>
    /\ UNCHANGED tuiEnvVars

\* bin/prt.rs 1-9: main returns when the loop has ended and the runtime is
\* dropped; a task still in flight is dropped at its next await.
RuntimeShutdown ==
    /\ ~tui.running
    /\ inflight > 0
    /\ job' = IdleJob
    /\ inflight' = 0
    /\ UNCHANGED <<store, tracked_authors, clock, runs, log, tui, chan, ackInFlight>>
    /\ UNCHANGED tuiEnvVars

\* --- the loop: draining the channel (tui_app.rs 229-270) ---------------

Receives(type) == tui.running /\ chan # <<>> /\ Head(chan).type = type

\* tui_app.rs 231.
DrainProgress ==
    /\ Receives("Progress")
    /\ chan' = Tail(chan)
    /\ UNCHANGED <<store, tracked_authors, clock, runs, log, job, tui, inflight,
                   ackInFlight>>
    /\ UNCHANGED tuiEnvVars

\* Mutant: the slot is cleared and the list is left as it is.
on_sync_finished_keep_list(model) == {[model EXCEPT !.active_job = None]}

\* Mutant: the list is reloaded but the slot is left as it is.
on_sync_finished_keep_slot(model) ==
    {clamped([model EXCEPT !.prs = prs]) : prs \in get_all_prs(store)}
    \cup {[model EXCEPT !.running = FALSE]}

\* tui_app.rs 233-240, 243-250: the slot is cleared, the list is reloaded
\* and the cursor clamped; a failing reload ends the loop with the error.
on_sync_finished(model) ==
    {clamped([model EXCEPT !.active_job = None, !.prs = prs]) :
        prs \in get_all_prs(store)}
    \cup {[model EXCEPT !.active_job = None, !.running = FALSE]}

\* tui_app.rs 232-241.
DrainFullSyncFinished ==
    /\ Receives("FullSyncFinished")
    /\ chan' = Tail(chan)
    /\ tui' \in on_sync_finished(tui)
    /\ UNCHANGED <<store, tracked_authors, clock, runs, log, job, inflight,
                   ackInFlight>>
    /\ UNCHANGED tuiEnvVars

\* tui_app.rs 242-251.
DrainQuickRefreshFinished ==
    /\ Receives("QuickRefreshFinished")
    /\ chan' = Tail(chan)
    /\ tui' \in on_sync_finished(tui)
    /\ UNCHANGED <<store, tracked_authors, clock, runs, log, job, inflight,
                   ackInFlight>>
    /\ UNCHANGED tuiEnvVars

\* tui_app.rs 252-268.
DrainTeamsFetchFinished ==
    /\ Receives("TeamsFetchFinished")
    /\ chan' = Tail(chan)
    /\ LET result == Head(chan).result
       IN tui' = [tui EXCEPT
                    !.active_job = None,
                    !.authors_screen =
                        IF result.ok
                        THEN [tracked |-> result.summary.tracked,
                              untracked |-> result.summary.untracked,
                              loading |-> FALSE, error |-> None]
                        ELSE [@ EXCEPT !.loading = FALSE,
                                       !.error = Some(result.error)]]
    /\ UNCHANGED <<store, tracked_authors, clock, runs, log, job, inflight,
                   ackInFlight>>
    /\ UNCHANGED tuiEnvVars

\* --- the loop: keys on the list screen (tui_app.rs 281-348) -------------

\* tui_app.rs 282.
KeyQuit ==
    /\ TuiOnPrList
    /\ tui' = [tui EXCEPT !.running = FALSE]
    /\ UNCHANGED <<store, tracked_authors, clock, runs, log, job, chan, inflight,
                   ackInFlight>>
    /\ UNCHANGED tuiEnvVars

\* tui_app.rs 283-289.
KeyUp ==
    /\ TuiOnPrList
    /\ LET model == clamped(tui)
       IN tui' = IF model.cursor > 0 THEN [model EXCEPT !.cursor = @ - 1] ELSE model
    /\ UNCHANGED <<store, tracked_authors, clock, runs, log, job, chan, inflight,
                   ackInFlight>>
    /\ UNCHANGED tuiEnvVars

\* tui_app.rs 290-296.
KeyDown ==
    /\ TuiOnPrList
    /\ LET model == clamped(tui)
       IN tui' = IF model.cursor + 1 < Len(filtered_indices(model))
                 THEN [model EXCEPT !.cursor = @ + 1] ELSE model
    /\ UNCHANGED <<store, tracked_authors, clock, runs, log, job, chan, inflight,
                   ackInFlight>>
    /\ UNCHANGED tuiEnvVars

\* tui_app.rs 297-304: the browser is opened; only the cursor may move.
KeyOpen ==
    /\ TuiOnPrList
    /\ tui' = clamped(tui)
    /\ UNCHANGED <<store, tracked_authors, clock, runs, log, job, chan, inflight,
                   ackInFlight>>
    /\ UNCHANGED tuiEnvVars

\* tui_app.rs 305-317: the selected in-memory record is stamped with the
\* current instant and upserted; a failing upsert ends the loop.
KeyAck ==
    /\ TuiOnPrList
    /\ LET model == clamped(tui)
           selected == selected_index(model, filtered_indices(model))
       IN IF selected = None
          THEN /\ tui' = model
               /\ UNCHANGED <<store, clock, ackInFlight>>
          ELSE \E now \in NowChoices :
                 LET pr_index == selected[1]
                     pr == [model.prs[pr_index] EXCEPT
                               !.last_acknowledged_at = Some(now)]
                 IN /\ clock' = now
                    /\ \/ /\ store' = save_pr(store, pr)
                          /\ tui' = clamped([model EXCEPT !.prs[pr_index] = pr])
                          /\ ackInFlight' =
                                [ackInFlight EXCEPT ![pull_request_key(pr)] =
                                    IF inflight > 0 THEN Some(timestamp(now))
                                    ELSE None]
                       \/ /\ tui' = [model EXCEPT !.running = FALSE]
                          /\ UNCHANGED <<store, ackInFlight>>
    /\ UNCHANGED <<tracked_authors, runs, log, job, chan, inflight>>
    /\ UNCHANGED tuiEnvVars

\* tui_app.rs 318-322.
KeyToggleView ==
    /\ TuiOnPrList
    /\ tui' = clamped(toggle_view(tui))
    /\ UNCHANGED <<store, tracked_authors, clock, runs, log, job, chan, inflight,
                   ackInFlight>>
    /\ UNCHANGED tuiEnvVars

\* Mutant: a job may be started whatever the slot holds.
may_start_job_always(active_job) == TRUE

\* tui_app.rs 324, 332, 340: a job is started only when the slot is empty.
may_start_job(active_job) == active_job = None

\* tokio::spawn of a task of the given kind (tui_app.rs 773-794).
spawn(kind) ==
    /\ runs < MaxRuns
    /\ job' = NewJob(kind, "get_user", TRUE)
    /\ inflight' = inflight + 1
    /\ log' = <<>>
    /\ runs' = runs + 1

\* The request is dropped: `continue`, or the body of the `if` is skipped.
refuse ==
    /\ tui' = [tui EXCEPT !.refused = TRUE]
    /\ UNCHANGED <<job, inflight, log, runs>>

\* tui_app.rs 323-330.
KeyFullSync ==
    /\ TuiOnPrList
    /\ IF may_start_job(tui.active_job)
       THEN /\ tui' = [tui EXCEPT !.active_job = Some("FullSync"), !.refused = FALSE]
            /\ spawn("full")
       ELSE refuse
    /\ UNCHANGED <<store, tracked_authors, clock, chan, ackInFlight>>
    /\ UNCHANGED tuiEnvVars

\* tui_app.rs 331-338.
KeyQuickRefresh ==
    /\ TuiOnPrList
    /\ IF may_start_job(tui.active_job)
       THEN /\ tui' = [tui EXCEPT !.active_job = Some("QuickRefresh"),
                                  !.refused = FALSE]
            /\ spawn("quick")
       ELSE refuse
    /\ UNCHANGED <<store, tracked_authors, clock, chan, ackInFlight>>
    /\ UNCHANGED tuiEnvVars

\* tui_app.rs 339-346.
KeyTeams ==
    /\ TuiOnPrList
    /\ IF may_start_job(tui.active_job)
       THEN /\ tui' = [tui EXCEPT !.screen = "AuthorsFromTeams",
                                  !.authors_screen = AuthorsScreenStateNew,
                                  !.active_job = Some("TeamsFetch"),
                                  !.refused = FALSE]
            /\ spawn("teams")
       ELSE refuse
    /\ UNCHANGED <<store, tracked_authors, clock, chan, ackInFlight>>
    /\ UNCHANGED tuiEnvVars

\* --- the loop: keys on the authors screen (tui_app.rs 350-457) ----------

\* tui_app.rs 351-354, 357-369: Esc or q with an empty search query.
AuthorsBack ==
    /\ TuiOnAuthors
    /\ tui' = [tui EXCEPT !.screen = "PrList"]
    /\ UNCHANGED <<store, tracked_authors, clock, runs, log, job, chan, inflight,
                   ackInFlight>>
    /\ UNCHANGED tuiEnvVars

\* tui_app.rs 418-429: Enter on a login of the untracked pane.
AuthorsTrack ==
    /\ TuiOnAuthors
    /\ ~tui.authors_screen.loading
    /\ \E login \in tui.authors_screen.untracked :
         \/ /\ tracked_authors' = tracked_authors \cup {login}
            /\ tui' = [tui EXCEPT !.authors_screen.untracked = @ \ {login},
                                  !.authors_screen.tracked = @ \cup {login}]
         \/ /\ tui' = [tui EXCEPT !.authors_screen.untracked = @ \ {login},
                                  !.running = FALSE]
            /\ UNCHANGED tracked_authors
    /\ UNCHANGED <<store, clock, runs, log, job, chan, inflight, ackInFlight>>
    /\ UNCHANGED tuiEnvVars

\* tui_app.rs 430-441: Enter on a login of the tracked pane.
AuthorsUntrack ==
    /\ TuiOnAuthors
    /\ ~tui.authors_screen.loading
    /\ \E login \in tui.authors_screen.tracked :
         \/ /\ tracked_authors' = tracked_authors \ {login}
            /\ tui' = [tui EXCEPT !.authors_screen.tracked = @ \ {login},
                                  !.authors_screen.untracked = @ \cup {login}]
         \/ /\ tui' = [tui EXCEPT !.authors_screen.tracked = @ \ {login},
                                  !.running = FALSE]
            /\ UNCHANGED tracked_authors
    /\ UNCHANGED <<store, clock, runs, log, job, chan, inflight, ackInFlight>>
    /\ UNCHANGED tuiEnvVars

SpecTuiNext ==
    \/ BG_GetUser \/ TF_Fetch \/ BG_SendFinished \/ RuntimeShutdown
    \/ FS_Begin \/ FS_FetchRepo \/ FS_ReadExisting
    \/ FS_SaveNew \/ FS_SaveUpdated \/ FS_DeleteRemoved \/ FS_RepoCompleted
    \/ QR_Begin \/ QR_Fetch \/ QR_Save
    \/ DrainProgress \/ DrainFullSyncFinished \/ DrainQuickRefreshFinished
    \/ DrainTeamsFetchFinished
    \/ KeyQuit \/ KeyUp \/ KeyDown \/ KeyOpen \/ KeyAck \/ KeyToggleView
    \/ KeyFullSync \/ KeyQuickRefresh \/ KeyTeams
    \/ AuthorsBack \/ AuthorsTrack \/ AuthorsUntrack

SpecTui == TuiInit /\ [][SpecTuiNext]_vars

\* The front end started on the list an earlier job has stored: two
\* records, or one when the second author was tracked after that job; since
\* then the second pull request may have changed or been closed.
\* The clock stands at its bound, so every instant taken is the same one.
CursorInit ==
    /\ rc = RcIdle
    /\ remote \in {RemoteInit,
                   [RemoteInit EXCEPT ![<<"r1", 2>>].ci = "failing"],
                   [RemoteInit EXCEPT ![<<"r1", 2>>].open = FALSE]}
    /\ tracked_repositories = <<"r1">>
    /\ tracked_authors = {"alice", "bob"}
    /\ users = 1
    /\ auth = AuthIdle
    /\ status_call = StatusCallIdle
    /\ pager = PagerIdle
    /\ assembly = AssemblyIdle
    /\ daemon = DaemonOff
    /\ store \in {SyncedStore(tracked_repositories, tracked_authors),
                  SyncedStore(tracked_repositories, {"alice"})}
    /\ clock = MaxClock
    /\ job = IdleJob
    /\ log = <<>>
    /\ runs = MaxRuns - 1
    /\ envSteps = 0
    /\ tui \in {TuiStart(prs) : prs \in get_all_prs(store)}
    /\ chan = <<>>
    /\ inflight = 0
    /\ ackInFlight = [k \in Keys |-> None]

SpecCursor == CursorInit /\ [][SpecTuiNext]_vars

\* A step of the job the spawned task runs: each of its remote and storage
\* calls returns.
JobStep ==
    \/ TF_Fetch
    \/ FS_Begin \/ FS_FetchRepo \/ FS_ReadExisting
    \/ FS_SaveNew \/ FS_SaveUpdated \/ FS_DeleteRemoved \/ FS_RepoCompleted
    \/ QR_Begin \/ QR_Fetch \/ QR_Save

\* The runtime schedules a spawned task that can take a step, and every
\* iteration of the loop drains the channel (tui_app.rs 229) before it polls
\* for a key with a timeout.
SpecTuiFair ==
    /\ SpecTui
    /\ WF_vars(BG_GetUser) /\ WF_vars(BG_SendFinished)
    /\ WF_vars(DrainProgress) /\ WF_vars(DrainFullSyncFinished)
    /\ WF_vars(DrainQuickRefreshFinished) /\ WF_vars(DrainTeamsFetchFinished)
    /\ WF_vars(JobStep)

\* ------------------------------------------------------------------------
\* SpecDaemon: bin/daemon.rs.  main loads the credential once and then
\* loops: one full sync, its outcome printed, a sleep of the interval.
\* ------------------------------------------------------------------------
daemonEnvVars ==
    <<rc, store, tracked_repositories, tracked_authors, users, auth, status_call, pager,
      assembly, remote, envSteps, feVars, chan>>

DaemonInit ==
    /\ rc = RcIdle
    /\ store = {}
    /\ tracked_repositories \in {<<"r1">>, <<"r1", "r2">>}
    /\ tracked_authors \in {{}, {"alice"}, {"alice", "bob"}}
    /\ users \in {0, 1}
    /\ auth = AuthIdle
    /\ status_call = StatusCallIdle
    /\ pager = PagerIdle
    /\ assembly = AssemblyIdle
    /\ daemon = [DaemonOff EXCEPT !.pc = "start"]
    /\ remote = RemoteInit
    /\ clock = 1
    /\ job = IdleJob
    /\ log = <<>>
    /\ runs = 0
    /\ envSteps = 0
    /\ tui = TuiOff
    /\ chan = <<>>
    /\ inflight = 0
    /\ ackInFlight = [k \in Keys |-> None]

\* daemon.rs 14-22: the database is opened and the credential loaded; any
\* error, or no stored user, ends main before the loop.
DaemonStartUp ==
    /\ daemon.pc = "start"
    /\ \/ daemon' = [daemon EXCEPT !.pc = "exited"]
       \/ LET user == get_user(users)
          IN daemon' = [daemon EXCEPT !.pc = IF ~user.ok \/ user.summary = None
                                              THEN "exited" ELSE "loop"]
    /\ UNCHANGED <<job, log, runs, clock>>
    /\ UNCHANGED daemonEnvVars

\* daemon.rs 25: sync_all_tracked is called and awaited.
DaemonCallSync ==
    /\ daemon.pc = "loop"
    /\ runs < MaxRuns
    /\ daemon' = [daemon EXCEPT !.pc = "syncing"]
    /\ job' = NewJob("full", "begin", FALSE)
    /\ log' = <<>>
    /\ runs' = runs + 1
    /\ UNCHANGED clock
    /\ UNCHANGED daemonEnvVars

\* Mutant: the error of a sync is propagated out of main.
after_sync_propagate_error(d, result) ==
    IF result.ok
    THEN [d EXCEPT !.pc = "sleep", !.syncs = @ + 1, !.last = Some(result)]
    ELSE [d EXCEPT !.pc = "exited", !.syncs = @ + 1, !.failed = @ + 1,
                   !.last = Some(result)]

\* daemon.rs 25-36: both arms of the match print and fall through to the
\* sleep.
after_sync(d, result) ==
    [d EXCEPT !.pc = "sleep", !.syncs = @ + 1,
              !.failed = IF result.ok THEN @ ELSE @ + 1,
              !.last = Some(result)]

\* daemon.rs 25-36: the sync has returned.
DaemonSyncReturned ==
    /\ daemon.pc = "syncing"
    /\ job.pc = "done"
    /\ daemon' = after_sync(daemon, job.result[1])
    /\ UNCHANGED <<job, log, runs, clock>>
    /\ UNCHANGED daemonEnvVars

\* daemon.rs 38: the sleep ends after the interval.
DaemonWake ==
    /\ daemon.pc = "sleep"
    /\ daemon' = [daemon EXCEPT !.pc = "loop", !.slept = @ + 1]
    /\ \E now \in NowChoices : clock' = now
    /\ UNCHANGED <<job, log, runs>>
    /\ UNCHANGED daemonEnvVars

\* The daemon's own steps.
DaemonStep == DaemonStartUp \/ DaemonCallSync \/ DaemonSyncReturned \/ DaemonWake

\* The steps of the sync the daemon awaits.
DaemonSyncStep ==
    \/ FS_Begin \/ FS_FetchRepo \/ FS_ReadExisting
    \/ FS_SaveNew \/ FS_SaveUpdated \/ FS_DeleteRemoved \/ FS_RepoCompleted

DaemonNext ==
    \/ DaemonStartUp \/ DaemonCallSync \/ DaemonSyncReturned \/ DaemonWake
    \/ FS_Begin \/ FS_FetchRepo \/ FS_ReadExisting
    \/ FS_SaveNew \/ FS_SaveUpdated \/ FS_DeleteRemoved \/ FS_RepoCompleted
    \/ RemotePush \/ RemoteCiChange \/ RemoteComment \/ RemoteClose
    \/ UntrackAuthor \/ UntrackRepository \/ Acknowledge

SpecDaemon == DaemonInit /\ [][DaemonNext]_vars

\* The process is scheduled: main goes on when it can, and the calls of the
\* sync it awaits return.
SpecDaemonFair == SpecDaemon /\ WF_vars(DaemonStep) /\ WF_vars(DaemonSyncStep)

\* ------------------------------------------------------------------------
\* SpecAuth: `auth` commands (cli_app.rs handle_auth), each its own process
\* on the shared database, started at any time
\* ------------------------------------------------------------------------
AuthAt(p, pc) == auth[p].pc = pc

AuthFails(p, what) == auth' = [auth EXCEPT ![p] = [pc |-> "failed", error |-> Some(what)]]

AuthGoes(p, pc) == auth' = [auth EXCEPT ![p].pc = pc]

authEnvVars == <<rc, pureVars, store, tracked_repositories, tracked_authors, remote, clock,
                 job, log, runs, envSteps, feVars, chan>>

\* cli_app.rs 80-85: the command reads the stored user and stops if there
\* is one (or if the read fails).
AuthCheckExisting(p) ==
    /\ AuthAt(p, "idle")
    /\ \/ AuthFails(p, "storage")
       \/ LET user == get_user(users)
          IN IF ~user.ok THEN AuthFails(p, "config")
             ELSE IF user.summary # None THEN AuthFails(p, "already authenticated")
             ELSE AuthGoes(p, "checked")
    /\ UNCHANGED users
    /\ UNCHANGED authEnvVars

\* cli_app.rs 87-88: the remote is asked who the token belongs to.
AuthFetchUser(p) ==
    /\ AuthAt(p, "checked")
    /\ \/ AuthFails(p, "remote")
       \/ AuthGoes(p, "fetched")
    /\ UNCHANGED users
    /\ UNCHANGED authEnvVars

\* db.rs 126-133: INSERT INTO users.
save_user(stored) == stored + 1

\* cli_app.rs 90-97: the credential is inserted.
AuthSaveUser(p) ==
    /\ AuthAt(p, "fetched")
    /\ \/ AuthFails(p, "storage") /\ UNCHANGED users
       \/ AuthGoes(p, "done") /\ users' = save_user(users)
    /\ UNCHANGED authEnvVars

AuthInit ==
    /\ rc = RcIdle
    /\ store = {}
    /\ tracked_repositories = <<>>
    /\ tracked_authors = {}
    /\ users \in {0, 1}
    /\ auth = AuthIdle
    /\ status_call = StatusCallIdle
    /\ pager = PagerIdle
    /\ assembly = AssemblyIdle
    /\ daemon = DaemonOff
    /\ remote = RemoteInit
    /\ clock = 1
    /\ job = IdleJob
    /\ log = <<>>
    /\ runs = 0
    /\ envSteps = 0
    /\ tui = TuiOff
    /\ chan = <<>>
    /\ inflight = 0
    /\ ackInFlight = [k \in Keys |-> None]

AuthNext ==
    \E p \in AuthProcesses :
        AuthCheckExisting(p) \/ AuthFetchUser(p) \/ AuthSaveUser(p)

SpecAuth == AuthInit /\ [][AuthNext]_vars

\* ------------------------------------------------------------------------
\* SpecCi: map_ci_status as a pure function over bounded inputs
\* ------------------------------------------------------------------------
\* Check runs as the remote reports them (schema::CheckRun): a run that is
\* under way has no conclusion, a completed run has one; the third kind is
\* a run reported with a pending status and a failing conclusion at once.
CheckRunValues ==
    {[status |-> st, conclusion |-> None] : st \in PendingStatuses \cup {"completed"}}
    \cup {[status |-> "completed", conclusion |-> Some(c)] :
              c \in FailingConclusions \cup {"success", "neutral"}}
    \cup {[status |-> "in_progress", conclusion |-> Some("failure")]}

\* The combined legacy state is any string.
CombinedStates == {"success", "failure", "error", "pending", "", "Success"}

CheckRunLists ==
    UNION {[1..n -> CheckRunValues] : n \in 0..MaxCheckRuns}

CiInit ==
    /\ rc = RcIdle
    /\ store = {}
    /\ tracked_repositories = <<>>
    /\ tracked_authors = {}
    /\ users = 0
    /\ auth = AuthIdle
    /\ \E check_runs \in CheckRunLists, combined_state \in CombinedStates :
          status_call = [ci_statuses |-> Some([check_runs |-> check_runs,
                                               combined_state |-> combined_state]),
                         done |-> FALSE, result |-> None]
    /\ pager = PagerIdle
    /\ assembly = AssemblyIdle
    /\ daemon = DaemonOff
    /\ remote = RemoteInit
    /\ clock = 1
    /\ job = IdleJob
    /\ log = <<>>
    /\ runs = 0
    /\ envSteps = 0
    /\ tui = TuiOff
    /\ chan = <<>>
    /\ inflight = 0
    /\ ackInFlight = [k \in Keys |-> None]

MapCiStatus ==
    /\ ~status_call.done
    /\ status_call' = [status_call EXCEPT
                          !.done = TRUE,
                          !.result = Some(map_ci_status(status_call.ci_statuses[1]))]
    /\ UNCHANGED <<rc, store, tracked_repositories, tracked_authors, users, auth, pager,
                   assembly, daemon, remote, clock, job, log, runs, envSteps, feVars,
                   chan>>

CiNext == MapCiStatus

SpecCi == CiInit /\ [][CiNext]_vars

\* ------------------------------------------------------------------------
\* SpecPages: get_paginated (github/mod.rs 183-198) against a collection the
\* remote serves in pages.  A URL is the number of the page it names; a link
\* header is a comma-separated list of segments `<target>; rel="..."`,
\* modelled as a sequence of [rel, target] with target None for `<>`.
\* ------------------------------------------------------------------------
Segment(rel, page) == [rel |-> rel, target |-> Some(page)]

EmptyNextSegment == [rel |-> "next", target |-> None]

\* The link headers the remote sends with page i of n: every page but the
\* last names its successor, alone or beside other relations; the last page
\* has no header, or only relations that point back, or a "next" without a
\* target.
LinkHeaders(i, n) ==
    LET back == IF i > 1 THEN Segment("prev", i - 1) ELSE Segment("first", 1)
    IN IF i < n
       THEN <<Some(<<Segment("next", i + 1)>>),
              Some(<<back, Segment("next", i + 1)>>),
              Some(<<Segment("next", i + 1), Segment("last", n)>>)>>
       ELSE <<None, Some(<<back>>), Some(<<back, EmptyNextSegment>>)>>

\* The k items of page i.
PageItems(i, k) == [j \in 1..k |-> <<i, j>>]

\* A collection the remote serves in n pages, page i with size[i] items and
\* the header[i]-th of its link headers.
Collection(n, size, header) ==
    [i \in 1..n |-> [items |-> PageItems(i, size[i]),
                     link |-> LinkHeaders(i, n)[header[i]]]]

\* Mutant: the target of the first segment is followed whatever its relation.
parse_next_url_first_segment(link_header) ==
    IF link_header[1].target = None THEN None ELSE Some(link_header[1].target[1])

\* github/mod.rs 250-263: the first segment that contains rel="next", and its
\* target unless the angle brackets hold nothing.
parse_next_url(link_header) ==
    LET found == {i \in DOMAIN link_header : link_header[i].rel = "next"}
    IN IF found = {} THEN None
       ELSE LET segment == link_header[CHOOSE i \in found : \A j \in found : i <= j]
            IN IF segment.target = None THEN None ELSE Some(segment.target[1])

\* github/mod.rs 194: link_header.and_then(|link| parse_next_url(&link)).
next_url_of(link) == IF link = None THEN None ELSE parse_next_url(link[1])

first_url == 1

PagesInit ==
    /\ rc = RcIdle
    /\ store = {}
    /\ tracked_repositories = <<>>
    /\ tracked_authors = {}
    /\ users = 0
    /\ auth = AuthIdle
    /\ status_call = StatusCallIdle
    /\ \E n \in 1..MaxPages :
          \E size \in [1..n -> 0..MaxItems], header \in [1..n -> 1..3] :
              pager = [PagerIdle EXCEPT !.pages = Collection(n, size, header),
                                        !.next_url = Some(first_url)]
    /\ assembly = AssemblyIdle
    /\ daemon = DaemonOff
    /\ remote = RemoteInit
    /\ clock = 1
    /\ job = IdleJob
    /\ log = <<>>
    /\ runs = 0
    /\ envSteps = 0
    /\ tui = TuiOff
    /\ chan = <<>>
    /\ inflight = 0
    /\ ackInFlight = [k \in Keys |-> None]

\* github/mod.rs 188-196: one iteration of the loop.  The request fails and
\* the `?` returns the error, dropping the items gathered so far; or the
\* page's items are appended and the next URL is taken from its link header,
\* and with no next URL the loop ends and the items are returned.
GetPage ==
    /\ pager.result = None
    /\ pager.next_url # None
    /\ LET url == pager.next_url[1]
       IN \/ pager' = [pager EXCEPT !.requested = Append(@, url),
                                    !.next_url = None,
                                    !.items = <<>>,
                                    !.result = Some(Err("remote"))]
          \/ LET page == pager.pages[url]
                 items == pager.items \o page.items
                 next_url == next_url_of(page.link)
             IN pager' = [pager EXCEPT !.requested = Append(@, url),
                                       !.next_url = next_url,
                                       !.items = items,
                                       !.result = IF next_url = None
                                                  THEN Some(Ok(items)) ELSE None]
    /\ UNCHANGED <<rc, store, tracked_repositories, tracked_authors, users, auth,
                   status_call, assembly, daemon, remote, clock, job, log, runs,
                   envSteps, feVars, chan>>

PagesNext == GetPage

SpecPages == PagesInit /\ [][PagesNext]_vars

\* The request is awaited by the caller, so the loop goes on while it can.
SpecPagesFair == SpecPages /\ WF_vars(GetPage)

\* ------------------------------------------------------------------------
\* SpecAssembly: fetch_pull_request_ci_statuses (github/mod.rs 100-145).  A
\* string is its sequence of characters; the remote's answer to each request
\* is chosen when the request is made.
\* ------------------------------------------------------------------------
\* Repository names and head shas, blank ones among them.
AssemblyStrings == {<<"a">>, <<" ", "a">>, <<>>, <<" ">>}

\* Mutant: only the empty string counts as blank.
trim_is_empty_untrimmed(value) == value = <<>>

\* value.trim().is_empty() (github/mod.rs 113, 244).
trim_is_empty(value) == \A i \in DOMAIN value : value[i] = " "

\* The legacy states the remote answers with here.
AssemblyStates == {"success", "pending"}

PullCall(repo_name, pr_id) == [call |-> "pull", repo_name |-> repo_name, pr_id |-> pr_id]

StatusCall(repo_name, sha) == [call |-> "status", repo_name |-> repo_name, sha |-> sha]

CheckRunsCall(repo_name, sha, page) ==
    [call |-> "check-runs", repo_name |-> repo_name, sha |-> sha, page |-> page]

AssemblyFails(what) ==
    [assembly EXCEPT !.pc = "done", !.result = Some(Err(what)),
                     !.check_runs = <<>>, !.next_url = None]

assemblyEnvVars ==
    <<rc, store, tracked_repositories, tracked_authors, users, auth, status_call, pager,
      daemon, remote, clock, job, log, runs, envSteps, feVars, chan>>

AssemblyInit ==
    /\ rc = RcIdle
    /\ store = {}
    /\ tracked_repositories = <<>>
    /\ tracked_authors = {}
    /\ users = 0
    /\ auth = AuthIdle
    /\ status_call = StatusCallIdle
    /\ pager = PagerIdle
    /\ \E repo_name \in AssemblyStrings, pr_id \in {0, 1} :
          assembly = [AssemblyIdle EXCEPT !.pc = "pull", !.repo_name = repo_name,
                                          !.pr_id = pr_id]
    /\ daemon = DaemonOff
    /\ remote = RemoteInit
    /\ clock = 1
    /\ job = IdleJob
    /\ log = <<>>
    /\ runs = 0
    /\ envSteps = 0
    /\ tui = TuiOff
    /\ chan = <<>>
    /\ inflight = 0
    /\ ackInFlight = [k \in Keys |-> None]

\* github/mod.rs 105-115: the arguments are checked, the pull request is
\* fetched and its head sha is checked.
AssemblyFetchPull ==
    /\ assembly.pc = "pull"
    /\ IF trim_is_empty(assembly.repo_name) \/ assembly.pr_id <= 0
       THEN assembly' = AssemblyFails("invalid")
       ELSE LET called == [assembly EXCEPT !.calls =
                              Append(@, PullCall(assembly.repo_name, assembly.pr_id))]
            IN \/ assembly' = [called EXCEPT !.pc = "done",
                                             !.result = Some(Err("remote"))]
               \/ \E sha \in AssemblyStrings :
                    assembly' = IF trim_is_empty(sha)
                                THEN [called EXCEPT !.pc = "done",
                                                    !.result = Some(Err("invalid"))]
                                ELSE [called EXCEPT !.pc = "status",
                                                    !.head_sha = Some(sha)]
    /\ UNCHANGED assemblyEnvVars

\* github/mod.rs 117-128: the combined status of the head commit, then the
\* URL of the first page of its check runs.
AssemblyFetchStatus ==
    /\ assembly.pc = "status"
    /\ LET called == [assembly EXCEPT !.calls =
                         Append(@, StatusCall(assembly.repo_name, assembly.head_sha[1]))]
       IN \/ assembly' = [called EXCEPT !.pc = "done", !.result = Some(Err("remote"))]
          \/ \E state \in AssemblyStates :
               assembly' = [called EXCEPT !.pc = "check_runs",
                                          !.combined_state = Some(state),
                                          !.next_url = Some(first_url)]
    /\ UNCHANGED assemblyEnvVars

\* github/mod.rs 130-144: one iteration of the check-run loop; with no next
\* URL the loop ends and the value is built.
AssemblyFetchCheckRuns ==
    /\ assembly.pc = "check_runs"
    /\ LET page == assembly.next_url[1]
           called == [assembly EXCEPT !.calls =
                         Append(@, CheckRunsCall(assembly.repo_name,
                                                 assembly.head_sha[1], page))]
       IN \/ assembly' = [called EXCEPT !.pc = "done", !.result = Some(Err("remote")),
                                        !.check_runs = <<>>, !.next_url = None]
          \/ \E size \in 0..1, last \in {page = MaxPages, TRUE}, header \in 1..3 :
               LET link == LinkHeaders(page, IF last THEN page ELSE page + 1)[header]
                   check_runs == assembly.check_runs \o PageItems(page, size)
                   next_url == next_url_of(link)
               IN assembly' =
                    IF next_url # None
                    THEN [called EXCEPT !.check_runs = check_runs,
                                        !.next_url = next_url]
                    ELSE [called EXCEPT
                            !.pc = "done", !.check_runs = check_runs,
                            !.next_url = None,
                            !.result = Some(Ok(
                                [pull_request_number |-> assembly.pr_id,
                                 head_sha |-> assembly.head_sha[1],
                                 combined_state |-> assembly.combined_state[1],
                                 check_runs |-> check_runs]))]
    /\ UNCHANGED assemblyEnvVars

AssemblyNext == AssemblyFetchPull \/ AssemblyFetchStatus \/ AssemblyFetchCheckRuns

SpecAssembly == AssemblyInit /\ [][AssemblyNext]_vars

\* ------------------------------------------------------------------------
\* SpecRec: the reconciler as a pure function over bounded inputs
\* ------------------------------------------------------------------------
RecRepo == "r1"
RecNumbers == {1, 2}

\* Prior records are what storage returns; fresh records are arbitrary
\* PullRequest values (the reconciler accepts any).
RecPrior(n) ==
    {[repository |-> RecRepo, number |-> n, title |-> "old", author |-> "alice",
      head_sha |-> "sha-1", ci_status |-> ci, last_comment_at |-> 1,
      last_commit_at |-> 1, last_ci_status_update_at |-> 1,
      last_acknowledged_at |-> ack] :
        ci \in CiStatuses, ack \in {None, Some(1)}}

RecFresh(n) ==
    {[repository |-> RecRepo, number |-> n, title |-> "new", author |-> "alice",
      head_sha |-> h, ci_status |-> ci, last_comment_at |-> c,
      last_commit_at |-> UNIX_EPOCH, last_ci_status_update_at |-> UNIX_EPOCH,
      last_acknowledged_at |-> ack] :
        h \in {"sha-1", "sha-2"}, ci \in CiStatuses, c \in {1, 2},
        ack \in {None, Some(0)}}

\* Lists with at most one record per number, in ascending or descending order.
RECURSIVE RecLists(_, _)
RecLists(Gen(_), ns) ==
    IF ns = {} THEN {<<>>}
    ELSE LET n == CHOOSE x \in ns : \A y \in ns : x <= y
             rest == RecLists(Gen, ns \ {n})
         IN rest \cup {<<r>> \o t : r \in Gen(n), t \in rest}

Reverse(s) == [i \in 1..Len(s) |-> s[Len(s) + 1 - i]]

RecInit ==
    /\ \E p \in RecLists(RecPrior, RecNumbers), f \in RecLists(RecFresh, RecNumbers),
          now \in 2..MaxClock, rev \in BOOLEAN :
          rc = [prior |-> p, fresh |-> IF rev THEN Reverse(f) ELSE f,
                now |-> now, done |-> FALSE, diff |-> EmptyDiff]
    /\ store = {}
    /\ tracked_repositories = <<>>
    /\ tracked_authors = {}
    /\ users = 0
    /\ auth = AuthIdle
    /\ status_call = StatusCallIdle
    /\ pager = PagerIdle
    /\ assembly = AssemblyIdle
    /\ daemon = DaemonOff
    /\ remote = RemoteInit
    /\ clock = 1
    /\ job = IdleJob
    /\ log = <<>>
    /\ runs = 0
    /\ envSteps = 0
    /\ tui = TuiOff
    /\ chan = <<>>
    /\ inflight = 0
    /\ ackInFlight = [k \in Keys |-> None]

Reconcile ==
    /\ ~rc.done
    /\ \E d \in process_pull_request_sync_results(rc.prior, rc.fresh, rc.now) :
          rc' = [rc EXCEPT !.done = TRUE, !.diff = d]
    /\ UNCHANGED <<store, tracked_repositories, tracked_authors, users, auth, pureVars, remote, clock,
                   job, log, runs, envSteps, feVars, chan>>

RecNext == Reconcile
SpecRec == RecInit /\ [][RecNext]_vars

\* ------------------------------------------------------------------------
\* Reconciler claims (checked under SpecRec)
\* ------------------------------------------------------------------------
RecKeys(prs) == {pull_request_key(prs[i]) : i \in DOMAIN prs}
RecWithKey(prs, k) == {r \in Range(prs) : pull_request_key(r) = k}

\* C1: for every key present in both the prior and the fresh set whose
\* ci_status differs, the record emitted into `updated` has
\* last_ci_status_update_at equal to the supplied now and last_acknowledged_at
\* equal to the prior record's value, whatever the fresh record carries.
C1_CiChangeStampsNowAndKeepsPriorAck ==
    rc.done =>
        \A p \in Range(rc.prior), f \in Range(rc.fresh) :
            (pull_request_key(p) = pull_request_key(f) /\ p.ci_status # f.ci_status)
            => /\ RecWithKey(rc.diff.updated_prs, pull_request_key(f)) # {}
               /\ \A u \in RecWithKey(rc.diff.updated_prs, pull_request_key(f)) :
                     /\ u.last_ci_status_update_at = rc.now
                     /\ u.last_acknowledged_at = p.last_acknowledged_at
                     /\ u.ci_status = f.ci_status

C1_Witness ==
    /\ rc.done
    /\ \E p \in Range(rc.prior), f \in Range(rc.fresh) :
          /\ pull_request_key(p) = pull_request_key(f)
          /\ p.ci_status = "Pending" /\ f.ci_status = "Success"
          /\ p.last_acknowledged_at = Some(1)
          /\ f.last_acknowledged_at = Some(0)
          /\ \E u \in Range(rc.diff.updated_prs) :
                pull_request_key(u) = pull_request_key(f)

\* C9: every record whose key is present only in the fresh set appears in
\* `new` with all fields exactly as in the fresh record, and in neither
\* `updated` nor `removed`.
C9_FreshOnlyIsNewVerbatim ==
    rc.done =>
        \A f \in Range(rc.fresh) :
            pull_request_key(f) \notin RecKeys(rc.prior)
            => /\ RecWithKey(rc.diff.new_prs, pull_request_key(f)) = {f}
               /\ RecWithKey(rc.diff.updated_prs, pull_request_key(f)) = {}
               /\ RecWithKey(rc.diff.removed_prs, pull_request_key(f)) = {}

C9_Witness ==
    /\ rc.done
    /\ rc.prior # <<>>
    /\ \E f \in Range(rc.fresh) :
          /\ pull_request_key(f) \notin RecKeys(rc.prior)
          /\ f.last_acknowledged_at = Some(0)
          /\ f \in Range(rc.diff.new_prs)

\* C10: every record whose key is present in the prior set but absent from
\* the fresh set appears in `removed` with all field values exactly as in the
\* prior record, and no other record appears in `removed`.
C10_RemovedIsPriorMinusFresh ==
    rc.done =>
        /\ Range(rc.diff.removed_prs) =
              {p \in Range(rc.prior) : pull_request_key(p) \notin RecKeys(rc.fresh)}
        /\ Len(rc.diff.removed_prs) = Cardinality(Range(rc.diff.removed_prs))

C10_Witness ==
    /\ rc.done
    /\ Len(rc.diff.removed_prs) = 1
    /\ Len(rc.prior) = 2
    /\ Len(rc.fresh) = 1
    /\ rc.diff.removed_prs[1].last_acknowledged_at = Some(1)

\* Pairs of a prior and a fresh record with the same key.
RecMatched ==
    {pf \in Range(rc.prior) \X Range(rc.fresh) :
        pull_request_key(pf[1]) = pull_request_key(pf[2])}

RecSameTriple(p, f) ==
    /\ p.ci_status = f.ci_status
    /\ p.last_comment_at = f.last_comment_at
    /\ p.head_sha = f.head_sha

\* C11: a key present in both sets whose ci_status, last_comment_at and
\* head commit are all equal appears in none of new, updated and removed,
\* whatever else differs; a key in both sets with a difference in any of the
\* three appears in updated.
C11_UnchangedIsSilentChangedIsUpdated ==
    rc.done =>
        \A pf \in RecMatched :
            LET k == pull_request_key(pf[1])
            IN /\ k \notin RecKeys(rc.diff.new_prs)
               /\ k \notin RecKeys(rc.diff.removed_prs)
               /\ (k \in RecKeys(rc.diff.updated_prs)) <=> ~RecSameTriple(pf[1], pf[2])

\* Both directions at once: one matched key unchanged although its title and
\* acknowledgement differ, another updated for a new comment alone.
C11_Witness ==
    /\ rc.done
    /\ \E pf, qg \in RecMatched :
          /\ RecSameTriple(pf[1], pf[2])
          /\ pf[1].title # pf[2].title
          /\ pf[1].last_acknowledged_at # pf[2].last_acknowledged_at
          /\ pull_request_key(pf[1]) \notin RecKeys(rc.diff.updated_prs)
          /\ qg[1].ci_status = qg[2].ci_status
          /\ qg[1].head_sha = qg[2].head_sha
          /\ qg[1].last_comment_at # qg[2].last_comment_at
          /\ pull_request_key(qg[1]) \in RecKeys(rc.diff.updated_prs)

RecNoKeyTwice(prs) == Len(prs) = Cardinality(RecKeys(prs))

\* C12: for inputs with unique keys the keys of new are exactly fresh minus
\* prior, the keys of removed exactly prior minus fresh, the keys of updated
\* lie in the intersection, the three lists are pairwise disjoint by key and
\* no key occurs twice in a list.
C12_PartitionsAreDisjoint ==
    (rc.done /\ RecNoKeyTwice(rc.prior) /\ RecNoKeyTwice(rc.fresh)) =>
        LET n == RecKeys(rc.diff.new_prs)
            u == RecKeys(rc.diff.updated_prs)
            r == RecKeys(rc.diff.removed_prs)
        IN /\ n = RecKeys(rc.fresh) \ RecKeys(rc.prior)
           /\ r = RecKeys(rc.prior) \ RecKeys(rc.fresh)
           /\ u \subseteq RecKeys(rc.prior) \cap RecKeys(rc.fresh)
           /\ n \cap u = {} /\ n \cap r = {} /\ u \cap r = {}
           /\ RecNoKeyTwice(rc.diff.new_prs)
           /\ RecNoKeyTwice(rc.diff.updated_prs)
           /\ RecNoKeyTwice(rc.diff.removed_prs)

\* One key new, the other updated.
C12_Witness ==
    /\ rc.done
    /\ Len(rc.prior) = 1 /\ Len(rc.fresh) = 2
    /\ Len(rc.diff.new_prs) = 1
    /\ Len(rc.diff.updated_prs) = 1

\* C13: every record in updated has last_commit_at equal to now when the
\* head commit differs between prior and fresh, and the prior record's
\* last_commit_at otherwise.
C13_LastCommitAtFollowsHeadCommit ==
    rc.done =>
        \A pf \in RecMatched :
            \A u \in RecWithKey(rc.diff.updated_prs, pull_request_key(pf[1])) :
                u.last_commit_at =
                    IF pf[1].head_sha # pf[2].head_sha THEN rc.now
                    ELSE pf[1].last_commit_at

\* One record updated with a new head commit, one updated with the same.
C13_Witness ==
    /\ rc.done
    /\ \E u, v \in Range(rc.diff.updated_prs) :
          /\ u.last_commit_at = rc.now
          /\ v.last_commit_at = 1 /\ v.head_sha = "sha-1"

\* C14: a record in updated equals the fresh record in every field but
\* last_acknowledged_at, last_ci_status_update_at and last_commit_at; when
\* ci_status is unchanged its last_ci_status_update_at is the prior record's.
C14_UpdatedIsFreshButThreeFields ==
    rc.done =>
        \A pf \in RecMatched :
            \A u \in RecWithKey(rc.diff.updated_prs, pull_request_key(pf[1])) :
                /\ [u EXCEPT
                      !.last_acknowledged_at = pf[2].last_acknowledged_at,
                      !.last_ci_status_update_at = pf[2].last_ci_status_update_at,
                      !.last_commit_at = pf[2].last_commit_at] = pf[2]
                /\ pf[1].ci_status = pf[2].ci_status =>
                      u.last_ci_status_update_at = pf[1].last_ci_status_update_at

\* A record updated for a new comment alone.
C14_Witness ==
    /\ rc.done
    /\ \E pf \in RecMatched :
          /\ pf[1].ci_status = pf[2].ci_status
          /\ pf[1].head_sha = pf[2].head_sha
          /\ pf[1].title # pf[2].title
          /\ \E u \in RecWithKey(rc.diff.updated_prs, pull_request_key(pf[1])) :
                u.title = pf[2].title /\ u.last_ci_status_update_at = 1

\* The two results hold the same records in each of the three lists.
SameRecordsAsSets(d1, d2) ==
    /\ Range(d1.new_prs) = Range(d2.new_prs) /\ Len(d1.new_prs) = Len(d2.new_prs)
    /\ Range(d1.updated_prs) = Range(d2.updated_prs)
    /\ Len(d1.updated_prs) = Len(d2.updated_prs)
    /\ Range(d1.removed_prs) = Range(d2.removed_prs)
    /\ Len(d1.removed_prs) = Len(d2.removed_prs)

Returned(kind) == job.kind = kind /\ job.pc = "done" /\ job.result # None
ReturnedSummary(kind) == Returned(kind) /\ job.result[1].ok
ReturnedError(kind) == Returned(kind) /\ ~job.result[1].ok

LogEntries(kind) == {i \in DOMAIN log : log[i].kind = kind}
LogEvents(type) == {i \in LogEntries("event") : log[i].ev.type = type}

\* The fresh records the run fetched for a repository (none if it fetched none).
FetchedFor(r) == IF job.fetched[r] = None THEN {} ELSE Range(job.fetched[r][1])

\* The table holds, for repository r, exactly the fetched keys, each with
\* the fetched ci_status and last_comment_at.
StoreMatchesFetched(r) ==
    /\ RowKeys(RowsOf(store, r)) = {pull_request_key(f) : f \in FetchedFor(r)}
    /\ \A f \in FetchedFor(r) : \A row \in RowsOf(store, r) :
          row.number = f.number
          => /\ to_model(row).ci_status = f.ci_status
             /\ to_model(row).last_comment_at = f.last_comment_at

\* C3 as stated: after a full sync returns a summary, for every tracked
\* repository R the keys persisted for R are the keys of the fresh records
\* fetched for R, and each persisted record of R has the fresh record's
\* ci_status and last_comment_at.
C3_Original_EveryTrackedRepositoryMatches ==
    ReturnedSummary("full") =>
        \A r \in Range(job.repositories) : StoreMatchesFetched(r)

\* C3 amended: the same, for a full sync that found both tracked sets
\* non-empty (with an empty set the run returns before touching any record).
C3_ProcessedRepositoriesMatch ==
    (ReturnedSummary("full") /\ job.repositories # <<>> /\ job.authors # {}) =>
        \A r \in Range(job.repositories) : StoreMatchesFetched(r)

C3_Witness ==
    /\ ReturnedSummary("full")
    /\ job.repositories # <<>> /\ job.authors # {}
    /\ job.summary.deleted_prs + job.summary.updated_prs >= 1
    /\ store # {}

\* C4: full sync is fail-fast.  Once a remote fetch or a storage operation
\* has failed while repository k is processed, the run has returned an error
\* and no summary, nothing follows the failure, no repository-completed event
\* for k was emitted, and no event, remote call or write concerns a
\* repository after k.
C4_FullSyncFailFast ==
    (job.kind = "full" /\ LogEntries("failure") # {}) =>
        LET k == job.index
            upto == {job.repositories[i] : i \in 1..k}
        IN /\ ReturnedError("full")
           /\ LogEntries("failure") = {Len(log)}
           /\ \A i \in LogEvents("FullSyncRepositoryCompleted") :
                 log[i].ev.repository_index < k
           /\ \A i \in LogEvents("FullSyncRepositoryStarted") :
                 log[i].ev.repository_index <= k
           /\ \A i \in LogEntries("remote") \cup LogEntries("write") :
                 log[i].repository \in upto

C4_Witness ==
    /\ ReturnedError("full")
    /\ job.index = 1
    /\ Len(job.repositories) = 2
    /\ LogEntries("write") # {}
    /\ log[Len(log)].kind = "failure"

\* C5: quick refresh isolates a remote failure to its record.  The step in
\* which the re-fetch of a record fails leaves the table unchanged, adds
\* exactly one to the failed count, emits item-completed with ok = false and
\* an error for that record, and goes on to the next record (or, after the
\* last record, returns the summary).
RefetchFails ==
    /\ JobAt("quick", "qfetch")
    /\ \E i \in DOMAIN log' : i > Len(log) /\ log'[i].kind = "failure"

C5_RefetchFailureIsIsolated ==
    [][RefetchFails =>
        LET existing_pr == job.existing_prs[job.index]
        IN /\ store' = store
           /\ job'.summary.failed_prs = job.summary.failed_prs + 1
           /\ job'.summary.refreshed_prs = job.summary.refreshed_prs
           /\ log'[Len(log')] = Event(QuickRefreshPullRequestCompleted(
                 existing_pr.repository, existing_pr.number, job.index,
                 job.summary.total_prs, FALSE, Some("remote")))
           /\ IF job.index < Len(job.existing_prs)
              THEN job'.pc = "qfetch" /\ job'.index = job.index + 1
              ELSE job'.pc = "done" /\ job'.result[1].ok
      ]_vars

C5_Witness ==
    /\ ReturnedSummary("quick")
    /\ job.summary.failed_prs = 1
    /\ job.summary.refreshed_prs = 1
    /\ \E i \in LogEvents("QuickRefreshPullRequestCompleted") :
          /\ ~log[i].ev.ok /\ log[i].ev.pr_index = 1
          /\ \E j \in LogEntries("write") : j > i

\* C6 as stated: every quick-refresh run that has loaded the persisted
\* record list returns a summary with total = refreshed + failed, whichever
\* operation on an individual record fails.
C6_Original_QuickRefreshAlwaysReturnsSummary ==
    (Returned("quick") /\ job.loaded) =>
        /\ job.result[1].ok
        /\ job.summary.total_prs =
              job.summary.refreshed_prs + job.summary.failed_prs

\* C8: a full sync that finds the tracked-repository set or the
\* tracked-author set empty returns the all-zero summary, having issued no
\* remote call and performed no storage write.
C8_NothingTrackedNothingDone ==
    (job.kind = "full" /\ job.loaded
        /\ (job.repositories = <<>> \/ job.authors = {})) =>
        /\ ReturnedSummary("full")
        /\ job.result[1].summary =
              [synced_repositories |-> 0, new_prs |-> 0,
               updated_prs |-> 0, deleted_prs |-> 0]
        /\ LogEntries("remote") = {}
        /\ LogEntries("write") = {}

C8_Witness ==
    /\ ReturnedSummary("full")
    /\ job.repositories # <<>>
    /\ job.authors = {}
    /\ store # {}

\* ------------------------------------------------------------------------
\* Claims about the front end and its background jobs (SpecTui)
\* ------------------------------------------------------------------------
StoredRow(k) == {row \in store : <<row.repository, row.number>> = k}

\* C2, as stated: an acknowledgement the front end persisted for a record
\* while a background job was in flight is still the stored value of that
\* record once no job is in flight any more.
C2_Original_AckSurvivesBackgroundJob ==
    \A k \in Keys :
        (inflight = 0 /\ ackInFlight[k] # None) =>
            \A row \in StoredRow(k) : row.last_acknowledged_unix = ackInFlight[k]

\* C7: at most one background job is in flight, and none while the slot is
\* empty; while the slot is occupied no step spawns a task or puts another
\* job into the slot (the slot is only ever cleared), and a refused request
\* changes nothing but the mark of its refusal.
C7_AtMostOneBackgroundJob ==
    [][/\ inflight' <= 1
       /\ (tui'.active_job = None => inflight' = 0)
       /\ (tui.active_job # None =>
              /\ inflight' <= inflight
              /\ job'.kind \in {job.kind, "idle"}
              /\ tui'.active_job \in {tui.active_job, None})
       /\ (tui'.refused /\ ~tui.refused =>
              /\ tui.active_job # None
              /\ tui' = [tui EXCEPT !.refused = TRUE]
              /\ UNCHANGED <<job, inflight, chan, log, runs, store, clock>>)
      ]_vars

\* A request was refused while a task is running.
C7_Witness ==
    /\ tui.running /\ tui.refused
    /\ tui.active_job # None
    /\ inflight = 1
    /\ job.pc \notin {"idle", "done"}

\* ------------------------------------------------------------------------
\* Further orchestrator claims (checked under Spec)
\* ------------------------------------------------------------------------
\* The step is the successful upsert of quick refresh for the current record.
QuickUpsertStep ==
    /\ job.kind = "quick" /\ job.pc = "qsave"
    /\ Len(log') = Len(log) + 2
    /\ log'[Len(log) + 1].kind = "write"

\* C15: on a successful re-fetch quick refresh upserts the fetched record
\* with last_acknowledged_at as read from storage at the start of the run
\* and with last_ci_status_update_at equal to the current instant when the
\* fetched ci_status differs from the stored one and to the stored
\* last_ci_status_update_at otherwise; every successful re-fetch is followed
\* by the upsert, changed or not.
C15_QuickRefreshUpsert ==
    [][/\ QuickUpsertStep =>
            LET existing_pr == job.existing_prs[job.index]
                key == pull_request_key(existing_pr)
                fetched == fetch_pull_request_details(key)
                upserted == job.refreshed[1]
                ci_changed == existing_pr.ci_status # fetched.ci_status
            IN /\ existing_pr \in {to_model(row) : row \in store}
               /\ upserted.last_acknowledged_at = existing_pr.last_acknowledged_at
               /\ upserted.last_ci_status_update_at =
                     IF ci_changed THEN clock
                     ELSE existing_pr.last_ci_status_update_at
               /\ upserted = [fetched EXCEPT
                     !.last_acknowledged_at = upserted.last_acknowledged_at,
                     !.last_ci_status_update_at = upserted.last_ci_status_update_at]
               /\ {row \in store' : <<row.repository, row.number>> = key}
                     = {bind_row(upserted)}
       /\ (job.kind = "quick" /\ job.pc = "qfetch"
             /\ log'[Len(log')].kind # "event") => job'.pc = "qsave"
      ]_vars

\* A run has upserted a record that the remote reports unchanged, with an
\* acknowledgement to carry over.
C15_Witness ==
    /\ ReturnedSummary("quick")
    /\ job.summary.refreshed_prs >= 1
    /\ \E i \in DOMAIN job.existing_prs :
          LET e == job.existing_prs[i]
          IN /\ e.last_acknowledged_at # None
             /\ e.ci_status = fetch_pull_request_details(pull_request_key(e)).ci_status
             /\ \E j \in LogEntries("write") :
                   log[j].repository = e.repository /\ log[j].number = e.number

QuickRunStep == job.kind = "quick" /\ ~NoJobRunning

\* C16: quick refresh never creates and never deletes a record. Every step
\* of a quick-refresh run leaves the set of persisted (repository, number)
\* keys as it was, and from the moment the run has loaded the list the
\* persisted keys are the keys of the loaded records, also when a re-fetch
\* fails, when the remote item is closed, and when the run ends in an error.
C16_QuickRefreshKeepsKeys ==
    /\ [][QuickRunStep => RowKeys(store') = RowKeys(store)]_vars
    /\ [](job.kind = "quick" /\ job.loaded =>
            RowKeys(store) = {pull_request_key(job.existing_prs[i]) :
                                 i \in DOMAIN job.existing_prs})

\* A returned quick refresh over two records: one re-fetch failed, and the
\* other record, closed on the remote, was upserted.
C16_Witness ==
    /\ ReturnedSummary("quick")
    /\ job.summary.failed_prs >= 1
    /\ \E j \in LogEntries("write") :
          ~remote[<<log[j].repository, log[j].number>>].open
    /\ Cardinality(RowKeys(store)) = 2

\* The persisted records of the repositories the run found tracked.
RecordsOfTracked ==
    {to_model(row) : row \in {x \in store : x.repository \in Range(job.repositories)}}

StillObserved(pr) ==
    /\ remote[pull_request_key(pr)].open
    /\ pr.author \in job.authors

\* The step on which a full sync returns a summary.
FullSyncReturnsSummary ==
    /\ job.kind = "full" /\ job.pc # "done"
    /\ ReturnedSummary("full")'

\* C17 as stated: when a full sync returns a summary, every persisted
\* record of a tracked repository is listed open by the remote and has an
\* author in the tracked-author set (a record that is closed, or whose author
\* is no longer tracked, has been deleted).
C17_Original_StaleRecordsAreDeleted ==
    [][FullSyncReturnsSummary =>
          (\A pr \in RecordsOfTracked : StillObserved(pr))']_vars

\* C17 amended: the same, for a full sync that found the tracked-author set
\* non-empty (with an empty set the run returns a summary before touching
\* any record).
C17_StaleRecordsAreDeletedWhenAuthorsTracked ==
    [][(FullSyncReturnsSummary /\ job'.authors # {}) =>
          (\A pr \in RecordsOfTracked : StillObserved(pr))']_vars

\* A returned full sync, with authors tracked, that deleted the record of a
\* pull request whose author is no longer tracked.
C17_Witness ==
    /\ ReturnedSummary("full")
    /\ job.authors # {}
    /\ \E j \in LogEntries("write") :
          /\ log[j].op = "delete"
          /\ RemoteAuthor(<<log[j].repository, log[j].number>>) \notin job.authors
          /\ remote[<<log[j].repository, log[j].number>>].open
    /\ RecordsOfTracked # {}

IsRepositoryEvent(entry) ==
    /\ entry.kind = "event"
    /\ entry.ev.type \in {"FullSyncRepositoryStarted", "FullSyncRepositoryCompleted"}

\* The repository events of the run, in the order they were emitted.
RepositoryEvents == SelectSeq(log, IsRepositoryEvent)

StartedBefore(i) ==
    Cardinality({j \in LogEvents("FullSyncRepositoryStarted") : j < i})

CompletedBefore(i) ==
    Cardinality({j \in LogEvents("FullSyncRepositoryCompleted") : j < i})

\* C18: full sync progress events are strictly ordered. A run that has read
\* the tracked sets has emitted full-sync-started as its first event and never
\* again; the repository events alternate started(1), completed(1),
\* started(2), ... with the repositories in stored order and index 1..total;
\* and every remote call and storage write happens between started(n) and
\* completed(n) of the repository it concerns, so nothing is done for
\* repository n+1 before completed(n).
C18_FullSyncEventsOrdered ==
    job.kind = "full" =>
        /\ \A i \in LogEvents("FullSyncStarted") :
              i = 1 /\ log[i].ev.total_repositories = Len(job.repositories)
        /\ job.loaded => LogEvents("FullSyncStarted") = {1}
        /\ RepositoryEvents # <<>> => LogEvents("FullSyncStarted") = {1}
        /\ \A k \in DOMAIN RepositoryEvents :
              LET e == RepositoryEvents[k].ev
                  n == (k + 1) \div 2
              IN /\ e.type = IF k % 2 = 1 THEN "FullSyncRepositoryStarted"
                                          ELSE "FullSyncRepositoryCompleted"
                 /\ e.repository_index = n
                 /\ n <= Len(job.repositories)
                 /\ e.repository = job.repositories[n]
                 /\ e.total_repositories = Len(job.repositories)
        /\ \A i \in LogEntries("remote") \cup LogEntries("write") :
              LET n == StartedBefore(i)
              IN /\ n >= 1
                 /\ CompletedBefore(i) = n - 1
                 /\ log[i].repository = job.repositories[n]

\* A returned full sync over two repositories with a storage write in each.
C18_Witness ==
    /\ ReturnedSummary("full")
    /\ Len(job.repositories) = 2
    /\ Len(RepositoryEvents) = 4
    /\ \A r \in Range(job.repositories) :
          \E i \in LogEntries("write") : log[i].repository = r

IsItemEvent(entry) ==
    /\ entry.kind = "event"
    /\ entry.ev.type \in {"QuickRefreshPullRequestStarted",
                          "QuickRefreshPullRequestCompleted"}

\* The item events of the run, in the order they were emitted.
ItemEvents == SelectSeq(log, IsItemEvent)

ItemsCompleted(ok) ==
    {i \in LogEvents("QuickRefreshPullRequestCompleted") : log[i].ev.ok = ok}

\* C19: quick refresh progress events are strictly ordered. A run that has
\* loaded the records has emitted quick-refresh-started{total} as its first
\* event and never again; the item events alternate item-started(1),
\* item-completed(1), item-started(2), ... each pair for the n-th loaded
\* record with index n and the same total; a completed event carries an
\* error exactly when ok is false; and a run that returns a summary has
\* emitted `total` item-completed events, `refreshed` of them with ok=true
\* and `failed` of them with ok=false.
C19_QuickRefreshEventsOrdered ==
    job.kind = "quick" =>
        /\ \A i \in LogEvents("QuickRefreshStarted") :
              i = 1 /\ log[i].ev.total_prs = Len(job.existing_prs)
        /\ job.loaded => LogEvents("QuickRefreshStarted") = {1}
        /\ ItemEvents # <<>> => LogEvents("QuickRefreshStarted") = {1}
        /\ \A k \in DOMAIN ItemEvents :
              LET e == ItemEvents[k].ev
                  n == (k + 1) \div 2
              IN /\ e.type = IF k % 2 = 1 THEN "QuickRefreshPullRequestStarted"
                                          ELSE "QuickRefreshPullRequestCompleted"
                 /\ e.pr_index = n
                 /\ n <= Len(job.existing_prs)
                 /\ e.repository = job.existing_prs[n].repository
                 /\ e.pr_number = job.existing_prs[n].number
                 /\ e.total_prs = Len(job.existing_prs)
        /\ \A i \in LogEvents("QuickRefreshPullRequestCompleted") :
              log[i].ev.ok <=> log[i].ev.error = None
        /\ ReturnedSummary("quick") =>
              /\ job.result[1].summary.total_prs = Len(job.existing_prs)
              /\ Cardinality(LogEvents("QuickRefreshPullRequestCompleted"))
                    = job.result[1].summary.total_prs
              /\ Cardinality(ItemsCompleted(TRUE)) = job.result[1].summary.refreshed_prs
              /\ Cardinality(ItemsCompleted(FALSE)) = job.result[1].summary.failed_prs

\* A returned quick refresh over two records, one refreshed and one failed.
C19_Witness ==
    /\ ReturnedSummary("quick")
    /\ job.result[1].summary.total_prs = 2
    /\ Cardinality(ItemsCompleted(TRUE)) = 1
    /\ Cardinality(ItemsCompleted(FALSE)) = 1

RECURSIVE SumOfEvents(_, _)
\* The sum of one count over the events at the given log positions.
SumOfEvents(positions, count) ==
    IF positions = {} THEN 0
    ELSE LET i == CHOOSE x \in positions : TRUE
         IN log[i].ev[count] + SumOfEvents(positions \ {i}, count)

\* The storage writes of one kind made for the repository whose
\* repository-completed event is at log position i.
WritesCountedAt(i, op) ==
    {j \in LogEntries("write") :
        /\ j < i
        /\ log[j].op = op
        /\ StartedBefore(j) = log[i].ev.repository_index}

SummaryIsSumOfEvents ==
    LET summary == job.result[1].summary
        completed == LogEvents("FullSyncRepositoryCompleted")
    IN /\ summary.synced_repositories = Cardinality(completed)
       /\ summary.new_prs = SumOfEvents(completed, "new_prs")
       /\ summary.updated_prs = SumOfEvents(completed, "updated_prs")
       /\ summary.deleted_prs = SumOfEvents(completed, "deleted_prs")

\* The step that emits a repository-completed event.
RepositoryCompletes ==
    /\ job.kind = "full" /\ job.pc = "apply"
    /\ Len(log') = Len(log) + 1
    /\ IsRepositoryEvent(log'[Len(log')])

\* The writes made for a repository are one upsert per new or updated record
\* and one delete per removed record its repository-completed event counts.
EventCountsAreWrites ==
    \A i \in LogEvents("FullSyncRepositoryCompleted") :
        /\ Cardinality(WritesCountedAt(i, "save")) =
              log[i].ev.new_prs + log[i].ev.updated_prs
        /\ Cardinality(WritesCountedAt(i, "delete")) = log[i].ev.deleted_prs

\* The counts of a repository-completed event are the sizes of the partition
\* the reconciler returned for the repository.
EventCountsArePartitionSizes ==
    /\ (job.kind = "full" /\ job.pc = "read" /\ job'.pc = "apply") =>
          \E existing_prs \in get_prs_by_repository(store, job.repositories[job.index]) :
              job'.diff \in process_pull_request_sync_results(
                                existing_prs, job.fresh_prs, clock')
    /\ (job.kind = "full" /\ job.pc = "apply" /\ job'.pc = "apply") =>
          job'.diff = job.diff
    /\ RepositoryCompletes =>
          LET e == log'[Len(log')].ev
          IN /\ e.new_prs = Len(job.diff.new_prs)
             /\ e.updated_prs = Len(job.diff.updated_prs)
             /\ e.deleted_prs = Len(job.diff.removed_prs)

\* C20 as stated: when full sync returns a summary, synced_repositories is
\* the number of repository-completed events emitted, which is the number of
\* tracked repositories, and the new, updated and deleted counts are the sums
\* of the counts carried by those events.
C20_Original_SummaryCountsEveryTrackedRepository ==
    ReturnedSummary("full") =>
        /\ SummaryIsSumOfEvents
        /\ job.result[1].summary.synced_repositories = Len(job.repositories)

\* C20 amended: when full sync returns a summary, synced_repositories is the
\* number of repository-completed events emitted, which is the number of
\* tracked repositories if the run found a tracked author and zero if it
\* found none; the new, updated and deleted counts are the sums of the counts
\* carried by those events; and each event's counts are the sizes of that
\* repository's reconciler partition.
C20_SummaryIsSumOfRepositoryCounts ==
    /\ [](ReturnedSummary("full") =>
            /\ SummaryIsSumOfEvents
            /\ job.result[1].summary.synced_repositories =
                  IF job.authors = {} THEN 0 ELSE Len(job.repositories))
    /\ [](job.kind = "full" => EventCountsAreWrites)
    /\ [][EventCountsArePartitionSizes]_vars

\* A returned full sync over two repositories whose events carry a new, an
\* updated and a deleted record between them.
C20_Witness ==
    /\ ReturnedSummary("full")
    /\ job.result[1].summary.synced_repositories = 2
    /\ job.result[1].summary.new_prs + job.result[1].summary.updated_prs
          + job.result[1].summary.deleted_prs >= 2
    /\ job.result[1].summary.updated_prs + job.result[1].summary.deleted_prs >= 1

\* ------------------------------------------------------------------------
\* Further front-end claims (checked under SpecTui)
\* ------------------------------------------------------------------------
\* The loop takes the message at the head of the channel.
Consumes(type) == Receives(type) /\ chan' = Tail(chan)

StoredRecords == {to_model(row) : row \in store}

\* C21: when the front end consumes a full-sync or quick-refresh completion
\* message, with a successful or a failed result, it clears the active-job
\* slot and its in-memory list becomes the records held by storage at that
\* moment (if that read fails the loop ends and the list is left); consuming
\* a progress message changes neither the list nor the slot.
C21_CompletionReloadsTheList ==
    [][/\ (Consumes("FullSyncFinished") \/ Consumes("QuickRefreshFinished")) =>
            /\ tui'.active_job = None
            /\ tui'.running =>
                  /\ Range(tui'.prs) = StoredRecords
                  /\ Len(tui'.prs) = Cardinality(store)
            /\ ~tui'.running => tui'.prs = tui.prs
       /\ Consumes("Progress") =>
            /\ tui'.prs = tui.prs
            /\ tui'.active_job = tui.active_job
      ]_vars

\* The loop has consumed the completion message of a job that failed after
\* it had started, and shows the records storage holds.
C21_Witness ==
    /\ tui.running /\ tui.active_job = None
    /\ runs >= 1 /\ inflight = 0 /\ chan = <<>>
    /\ LogEntries("event") # {} /\ LogEntries("failure") # {}
    /\ tui.prs # <<>>
    /\ Range(tui.prs) = StoredRecords

\* A spawned task that has not yet returned from its job.
JobUnfinished == job.spawned /\ job.pc \notin {"idle", "done"}

\* C22 as stated: a started background job runs to completion or failure.
\* No step, quitting the front end included, ends a spawned task before its
\* job has returned a result.
C22_Original_StartedJobIsNeverStopped ==
    [][JobUnfinished => job'.pc # "idle"]_vars

\* The loop runs and the active-job slot is occupied.
JobSlotOccupied == tui.running /\ tui.active_job # None

C24_Original_AtMostOneStoredUser == users <= 1

\* ------------------------------------------------------------------------
\* Status mapping claims (checked under SpecCi)
\* ------------------------------------------------------------------------
MappedInput == status_call.ci_statuses[1]

Mapped == status_call.done /\ status_call.ci_statuses # None

SomeRunFailing ==
    \E i \in DOMAIN MappedInput.check_runs :
        MappedInput.check_runs[i].conclusion \in
            {Some("failure"), Some("timed_out"), Some("cancelled"),
             Some("startup_failure"), Some("action_required"), Some("stale")}

SomeRunPending ==
    \E i \in DOMAIN MappedInput.check_runs :
        MappedInput.check_runs[i].status \in
            {"queued", "in_progress", "waiting", "requested", "pending"}

\* C25: the precedence of the status mapping is fixed. If any check run has
\* a failing conclusion the result is Failure, whatever the other runs and
\* the legacy state are; otherwise, if any check run has a pending status,
\* the result is Pending, also when the legacy state is "success".
C25_FailingThenPendingPrecedence ==
    Mapped =>
        /\ SomeRunFailing => status_call.result = Some("Failure")
        /\ (~SomeRunFailing /\ SomeRunPending) => status_call.result = Some("Pending")

\* Scenario E with a run under way beside the failed one: Failure.
C25_Witness ==
    /\ Mapped
    /\ SomeRunFailing /\ SomeRunPending
    /\ MappedInput.combined_state = "success"
    /\ status_call.result = Some("Failure")

\* C26: the mapping is total and falls back to the legacy state. Every
\* input gets one of the three statuses; with no failing and no pending
\* check run (the empty list included) the result is Success iff the legacy
\* state is exactly "success", Failure iff it is "failure" or "error", and
\* Pending for every other string; so Success is returned only when the
\* legacy state is "success".
C26_LegacyStateFallback ==
    Mapped =>
        /\ status_call.result \in {Some(st) : st \in CiStatuses}
        /\ (~SomeRunFailing /\ ~SomeRunPending) =>
              status_call.result =
                 Some(IF MappedInput.combined_state = "success" THEN "Success"
                      ELSE IF MappedInput.combined_state \in {"failure", "error"}
                      THEN "Failure"
                      ELSE "Pending")
        /\ status_call.result = Some("Success") => MappedInput.combined_state = "success"

\* No check run at all and a legacy state the mapping does not know: Pending.
C26_Witness ==
    /\ Mapped
    /\ MappedInput.check_runs = <<>>
    /\ MappedInput.combined_state \notin {"success", "failure", "error", "pending"}
    /\ status_call.result = Some("Pending")

\* No credential can be loaded: none is stored, or more than one.
NoUsableCredential == users # 1

\* The spawned task is a full sync or a quick refresh.
SyncJobSpawned == job.spawned /\ job.kind \in {"full", "quick"}

\* The task's read of the credential returns.
CredentialRead ==
    /\ SyncJobSpawned /\ job.pc = "get_user"
    /\ job'.spawned /\ job'.pc # "get_user"

\* C28: a background full sync or quick refresh started when no credential
\* is stored, or more than one, fails with a configuration error (a storage
\* error if the read itself fails) at its first step, before any remote call
\* and any record write; the failed task can always send its completion
\* message while the loop runs, the message carries the error, and consuming
\* it clears the slot.  Under the fair scheduling of the task and of the
\* loop's drain, an occupied slot is eventually cleared unless the loop ends.
C28_NoCredentialFailsAndCompletes ==
    /\ [][NoUsableCredential /\ CredentialRead =>
            /\ job'.pc = "done"
            /\ ~job'.result[1].ok
            /\ job'.result[1].error \in {"config", "storage"}
            /\ log' = <<Failure(job'.result[1].error, "", 0)>>
            /\ store' = store
         ]_vars
    /\ [](NoUsableCredential /\ SyncJobSpawned =>
            /\ \A i \in DOMAIN log : log[i].kind = "failure"
            /\ job.pc \in {"get_user", "done"}
            /\ (job.pc = "done" /\ tui.running => ENABLED BG_SendFinished))
    /\ [][NoUsableCredential /\ SyncJobSpawned /\ job'.pc = "idle" /\ tui.running =>
            /\ job.pc = "done"
            /\ chan' = Append(chan, FinishedMessage(job.kind, job.result[1]))
            /\ ~chan'[Len(chan')].result.ok
         ]_vars
    /\ [][/\ NoUsableCredential
           /\ (Consumes("FullSyncFinished") \/ Consumes("QuickRefreshFinished"))
           => ~Head(chan).result.ok /\ tui'.active_job = None
         ]_vars
    /\ (/\ NoUsableCredential /\ tui.running
        /\ tui.active_job \in {Some("FullSync"), Some("QuickRefresh")})
           ~> (tui.active_job = None \/ ~tui.running)

\* A job started with two stored credentials has failed with the
\* configuration error, its message has been consumed and the slot is empty.
C28_Witness ==
    /\ users = 2
    /\ runs = 1
    /\ log = <<Failure("config", "", 0)>>
    /\ job = IdleJob /\ inflight = 0
    /\ chan = <<>>
    /\ tui.running /\ tui.active_job = None

\* The position of a repository in the list the run loaded.
PositionOf(repo_name) ==
    CHOOSE p \in DOMAIN job.repositories : job.repositories[p] = repo_name

\* The i-th entry of the log is the failed fetch of a repository's fresh
\* records by a full sync.
FetchFailedAt(i) ==
    /\ job.kind = "full"
    /\ log[i].kind = "failure" /\ log[i].what = "remote"

\* The run's writes all came before the failed fetch and went to
\* repositories before the one whose fetch failed.
WritesOnlyBefore(i) ==
    \A j \in DOMAIN log :
        log[j].kind = "write" =>
            /\ j < i
            /\ PositionOf(log[j].repository) < PositionOf(log[i].repository)

\* The full sync returns the error of a failed fetch.
FullSyncFailsOnFetch ==
    /\ job.kind = "full" /\ job.pc = "fetch"
    /\ job'.pc = "done" /\ ~job'.result[1].ok

\* C29: if a full sync fails while fetching the fresh records of repository
\* k, the run has written no record of k or of a later repository, the failing
\* step leaves the table as the earlier writes made it (nothing is rolled
\* back), and at every state the table holds at most one record per
\* (repository, number).
C29_PartialFailureKeepsRecordsConsistent ==
    /\ [](\A i \in DOMAIN log : FetchFailedAt(i) => WritesOnlyBefore(i))
    /\ [][FullSyncFailsOnFetch =>
            /\ store' = store
            /\ job'.result[1].error = "remote"
            /\ FetchFailedAt(Len(log))' ]_vars
    /\ [](\A a, b \in store :
            a.repository = b.repository /\ a.number = b.number => a = b)

\* A second full sync has written a record of the first repository and then
\* failed on the fetch of the second, whose records are still stored.
C29_Witness ==
    /\ job.kind = "full" /\ job.pc = "done" /\ ~job.result[1].ok
    /\ runs = 2
    /\ job.index = 2
    /\ log[Len(log)] = Failure("remote", job.repositories[2], 0)
    /\ \E j \in DOMAIN log :
          /\ log[j].kind = "write" /\ log[j].repository = job.repositories[1]
    /\ RowsOf(store, job.repositories[1]) # {}
    /\ RowsOf(store, job.repositories[2]) # {}

\* The response carries a "next" relation with a target.
HasNext(page) ==
    /\ page.link # None
    /\ \E i \in DOMAIN page.link[1] :
          page.link[1][i].rel = "next" /\ page.link[1][i].target # None

\* The first page, in the remote's order, whose response has no "next".
FirstPageWithoutNext ==
    CHOOSE n \in DOMAIN pager.pages :
        /\ ~HasNext(pager.pages[n])
        /\ \A m \in 1..(n - 1) : HasNext(pager.pages[m])

RECURSIVE ItemsThrough(_)
\* The items of pages 1..n, in page order.
ItemsThrough(n) ==
    IF n = 0 THEN <<>> ELSE ItemsThrough(n - 1) \o pager.pages[n].items

PagerReturned == pager.result # None

\* C30: the collection fetch requests the first page and then the page each
\* response names as "next", in that order; it returns when a response has no
\* "next", with the items of all pages requested concatenated in page order;
\* if a request fails it returns that error and no items and requests nothing
\* more; and it always returns.
C30_PaginationFollowsNextAndTerminates ==
    /\ [](/\ Len(pager.requested) <= FirstPageWithoutNext
          /\ \A i \in DOMAIN pager.requested : pager.requested[i] = i)
    /\ [](PagerReturned /\ pager.result[1].ok =>
            /\ Len(pager.requested) = FirstPageWithoutNext
            /\ pager.result[1].summary = ItemsThrough(FirstPageWithoutNext))
    /\ [](PagerReturned /\ ~pager.result[1].ok =>
            /\ pager.result[1] = Err("remote")
            /\ pager.items = <<>>)
    /\ [](~PagerReturned =>
            /\ pager.items = ItemsThrough(Len(pager.requested))
            /\ pager.next_url = Some(Len(pager.requested) + 1))
    /\ [][PagerReturned => pager' = pager]_vars
    /\ <>PagerReturned

\* Three pages, the second with a link back listed before its "next", have
\* been fetched and their four items returned.
C30_Witness ==
    /\ PagerReturned /\ pager.result[1].ok
    /\ pager.requested = <<1, 2, 3>>
    /\ pager.pages[2].link = Some(<<Segment("prev", 1), Segment("next", 3)>>)
    /\ Len(pager.result[1].summary) = 4
    /\ pager.result[1].summary[4] = <<3, 1>>

\* The calls of a complete assembly that reads n pages of check runs.
AssemblyCallOrder(n) ==
    <<PullCall(assembly.repo_name, assembly.pr_id),
      StatusCall(assembly.repo_name, assembly.head_sha[1])>>
    \o [i \in 1..n |-> CheckRunsCall(assembly.repo_name, assembly.head_sha[1], i)]

\* The calls made so far begin the fixed order.
AssemblyCallsInOrder ==
    \/ assembly.calls = <<>>
    \/ assembly.calls = <<PullCall(assembly.repo_name, assembly.pr_id)>>
    \/ /\ assembly.head_sha # None
       /\ \E n \in 0..MaxPages :
             assembly.calls = AssemblyCallOrder(n)

AssemblyReturned == assembly.pc = "done"

\* C31: the assembly calls the remote in the order pull request, combined
\* status of its head commit, check-run pages of that commit; once a step has
\* failed (a failing request, or a blank head sha) no further call is made
\* and the result is the error alone; the status and the check runs are never
\* requested for a blank sha; a value is returned only after all three kinds
\* of call and carries the sha, the state and every page's check runs.
C31_AssemblyCallsInOrderAndFailsWhole ==
    /\ [](assembly.pc # "idle" => AssemblyCallsInOrder)
    /\ [](\A i \in DOMAIN assembly.calls :
            assembly.calls[i].call # "pull" =>
                /\ assembly.calls[i].sha = assembly.head_sha[1]
                /\ \E c \in 1..Len(assembly.calls[i].sha) :
                      assembly.calls[i].sha[c] # " ")
    /\ [](AssemblyReturned /\ ~assembly.result[1].ok =>
            /\ assembly.result[1] \in {Err("remote"), Err("invalid")}
            /\ assembly.check_runs = <<>>)
    /\ [](AssemblyReturned /\ assembly.result[1].ok =>
            /\ Len(assembly.calls) >= 3
            /\ assembly.calls[Len(assembly.calls)].call = "check-runs"
            /\ assembly.result[1].summary.head_sha = assembly.calls[2].sha
            /\ assembly.result[1].summary.combined_state = assembly.combined_state[1]
            /\ assembly.result[1].summary.check_runs = assembly.check_runs
            /\ Len(assembly.check_runs) <= Len(assembly.calls) - 2)
    /\ [][AssemblyReturned => assembly' = assembly]_vars
    /\ [][assembly'.pc = "done" /\ assembly.pc # "done" /\ ~assembly'.result[1].ok =>
            Len(assembly'.calls) <= Len(assembly.calls) + 1]_vars

\* The pull request came back with a blank head sha: the assembly has failed
\* after its first call.
C31_Witness ==
    /\ AssemblyReturned
    /\ assembly.result = Some(Err("invalid"))
    /\ Len(assembly.calls) = 1
    /\ assembly.head_sha = None

FinishedTypes == {"FullSyncFinished", "QuickRefreshFinished", "TeamsFetchFinished"}

\* The completion messages waiting in the channel.
FinishedInChannel == {i \in DOMAIN chan : chan[i].type \in FinishedTypes}

\* The step puts a message of one of the given types into the channel.
Sends(types) ==
    /\ Len(chan') > Len(chan)
    /\ chan'[Len(chan')].type \in types

\* A key that starts a job is pressed and the job is spawned.
StartsJob ==
    /\ KeyFullSync \/ KeyQuickRefresh \/ KeyTeams
    /\ inflight' = inflight + 1

\* C32: every started background job sends exactly one completion message,
\* after all of its progress messages: while the loop runs and the slot is
\* occupied, the task is in flight or its one completion message is in the
\* channel, never both and never two; the message is sent by the task whose
\* job has returned, with success or failure, and ends the task; progress
\* messages are sent only before the job has returned, so none follows the
\* completion message.  If the job's calls return and the loop keeps
\* running, the slot becomes empty again, and with an empty slot a new job
\* can be started.
C32_OneCompletionMessagePerJob ==
    /\ [](tui.running =>
            /\ tui.active_job # None => inflight + Cardinality(FinishedInChannel) = 1
            /\ tui.active_job = None => inflight + Cardinality(FinishedInChannel) = 0
            /\ \A i \in FinishedInChannel : i = Len(chan))
    /\ [][Sends(FinishedTypes) =>
            /\ job.spawned /\ job.pc = "done" /\ job.result # None
            /\ chan' = Append(chan, FinishedMessage(job.kind, job.result[1]))
            /\ job' = IdleJob /\ inflight' = inflight - 1
         ]_vars
    /\ [][Sends({"Progress"}) => job.spawned /\ job.pc \notin {"idle", "done"}]_vars
    /\ [](tui.running /\ tui.active_job = None /\ tui.screen = "PrList" /\ runs < MaxRuns
            => ENABLED StartsJob)
    /\ (tui.running /\ tui.active_job # None) ~> (tui.active_job = None \/ ~tui.running)

\* A second job is in flight and has sent a progress message; the first
\* job's completion message has been consumed.
C32_Witness ==
    /\ tui.running /\ tui.active_job # None
    /\ runs = 2 /\ inflight = 1
    /\ job.spawned /\ job.pc \notin {"idle", "done", "get_user"}
    /\ \E i \in DOMAIN chan : chan[i].type = "Progress"

\* The acknowledge key is handled and its upsert succeeds.
AckWrites == KeyAck /\ tui'.running /\ store' # store

\* The row differs from the other in last_acknowledged_at at most.
SameButAcknowledgement(after, before) ==
    after = [before EXCEPT !.last_acknowledged_unix = after.last_acknowledged_unix]

\* C33 as stated: the acknowledge action changes in storage only the
\* last_acknowledged_at of the selected record; every other stored field
\* keeps its stored value and no record is created, also when a background
\* job has updated or deleted the record since the list was loaded.
C33_Original_AckChangesOnlyAcknowledgement ==
    [][AckWrites =>
          /\ RowKeys(store') = RowKeys(store)
          /\ \A after \in store' : \E before \in store :
                SameButAcknowledgement(after, before)
      ]_vars

\* ------------------------------------------------------------------------
\* Claims about runs on a filled store (SpecResync)
\* ------------------------------------------------------------------------
\* The two rows are of the same pull request.
SameKey(a, b) == a.repository = b.repository /\ a.number = b.number

\* The step is quick refresh's upsert of a record whose head commit is the
\* stored one.
QuickUpsertOfSameHead ==
    /\ job.kind = "quick" /\ job.pc = "qsave"
    /\ store' # store
    /\ \A before \in store, after \in store' :
          SameKey(before, after) => after.head_sha = before.head_sha

\* C34 as stated: over any sequence of full syncs and quick refreshes the
\* persisted last_commit_at and last_ci_status_update_at of a record never
\* decrease, and a quick refresh of a record whose head commit is unchanged
\* leaves its persisted last_commit_at unchanged.
C34_Original_StampsNeverDecrease ==
    [][/\ \A before \in store, after \in store' :
            SameKey(before, after) =>
                /\ after.last_commit_unix >= before.last_commit_unix
                /\ after.last_ci_status_update_unix >= before.last_ci_status_update_unix
       /\ QuickUpsertOfSameHead =>
            \A before \in store, after \in store' :
                SameKey(before, after) =>
                    after.last_commit_unix = before.last_commit_unix
      ]_vars

\* ------------------------------------------------------------------------
\* Claims about the daemon and its consecutive syncs (SpecDaemon)
\* ------------------------------------------------------------------------
\* The daemon's second sync is running or has just returned; the first one
\* returned a summary, and neither the remote nor the tracked sets nor the
\* stored records have been changed by anyone else.
SecondSyncOnUnchanged ==
    /\ daemon.syncs = 1 /\ daemon.failed = 0
    /\ runs = 2 /\ job.kind = "full"
    /\ envSteps = 0

DaemonSyncing == daemon.pc = "syncing"

\* C37: the daemon runs its syncs one at a time: a sync is started only by
\* the loop, when the one before has returned, and while the daemon sleeps
\* or is about to call no sync is running.  A sync that returns, with an
\* error as with a summary, sends the daemon to its sleep and never out of
\* the loop; the sleep is followed by the next call.  Once in the loop the
\* daemon leaves it for no reason, and (under fair scheduling) every sync
\* that returns is followed by the sleep and the sleep by the loop's next
\* turn.
C37_DaemonKeepsPolling ==
    /\ [](daemon.pc \in {"loop", "sleep"} => NoJobRunning)
    /\ [](DaemonSyncing => job.kind = "full")
    /\ [][runs' # runs =>
            /\ daemon.pc = "loop" /\ NoJobRunning
            /\ daemon'.pc = "syncing"
            /\ daemon.syncs = runs]_vars
    /\ [][daemon'.syncs # daemon.syncs =>
            /\ DaemonSyncing /\ job.pc = "done"
            /\ daemon'.pc = "sleep"
            /\ daemon'.syncs = daemon.syncs + 1
            /\ daemon'.last = job.result
            /\ daemon'.failed = daemon.failed + (IF job.result[1].ok THEN 0 ELSE 1)
         ]_vars
    /\ [][daemon.pc \in {"loop", "syncing", "sleep"} =>
            daemon'.pc \in {"loop", "syncing", "sleep"}]_vars
    /\ [][daemon.pc = "sleep" /\ daemon'.pc # "sleep" => daemon'.pc = "loop"]_vars
    /\ [](daemon.pc = "loop" /\ runs < MaxRuns => ENABLED DaemonCallSync)
    /\ (DaemonSyncing ~> daemon.pc = "sleep")
    /\ (daemon.pc = "sleep" ~> daemon.pc = "loop")
    /\ ((daemon.pc = "loop" /\ runs < MaxRuns) ~> DaemonSyncing)

\* The first sync failed, the daemon slept, and its second sync is running.
C37_Witness ==
    /\ DaemonSyncing
    /\ daemon.syncs = 1 /\ daemon.failed = 1 /\ daemon.slept = 1
    /\ ~daemon.last[1].ok
    /\ runs = 2
    /\ job.pc \notin {"idle", "done"}

\* ------------------------------------------------------------------------
\* Frame of the full sync (checked under Spec)
\* ------------------------------------------------------------------------
\* The repository the full sync is processing.
CurrentRepository == job.repositories[job.index]

\* Every record of the reconciler's result is of the given repository.
DiffIsOf(diff, repo_name) ==
    \A pr \in Range(diff.new_prs) \cup Range(diff.updated_prs)
                \cup Range(diff.removed_prs) : pr.repository = repo_name

\* C36: a full sync processes the repositories that were tracked when it
\* began; what it reads and reconciles, and every record it writes or
\* deletes, is of the repository it is processing, so the records of every
\* other repository, tracked or not, are left as they are by each of its
\* steps.
C36_FullSyncTouchesOnlyTrackedRepositories ==
    /\ [](job.kind = "full" /\ job.loaded /\ ~NoJobRunning =>
            job.repositories = tracked_repositories)
    /\ [](job.kind = "full" /\ job.pc = "apply" =>
            DiffIsOf(job.diff, CurrentRepository))
    /\ [](job.kind = "full" =>
            \A i \in LogEntries("write") :
                log[i].repository \in Range(job.repositories))
    /\ [][job.kind = "full" /\ ~NoJobRunning =>
            \A r \in Repos :
                (job.pc # "apply" \/ r # CurrentRepository) =>
                    RowsOf(store', r) = RowsOf(store, r)
         ]_vars

\* A full sync of r1 alone has written a record of r1 and returned, and
\* the records of r2, no longer tracked, are still stored.
C36_Witness ==
    /\ job.kind = "full" /\ job.pc = "done" /\ job.result[1].ok
    /\ job.repositories = <<"r1">>
    /\ LogEntries("write") # {}
    /\ RowsOf(store, "r2") # {}

\* ------------------------------------------------------------------------
\* The cursor of the list screen (checked under SpecCursor)
\* ------------------------------------------------------------------------
\* The cursor is 0 on an empty filtered list and an index into it otherwise.
CursorInRange(model) ==
    LET len == Len(filtered_indices(model))
    IN IF len = 0 THEN model.cursor = 0
       ELSE model.cursor >= 0 /\ model.cursor < len

\* The step handles a key of the list screen other than the view toggle, or
\* consumes the completion message of a full sync or quick refresh.
ListStep ==
    \/ KeyUp \/ KeyDown \/ KeyOpen \/ KeyAck \/ KeyQuit
    \/ KeyFullSync \/ KeyQuickRefresh
    \/ Consumes("FullSyncFinished") \/ Consumes("QuickRefreshFinished")

\* C38: while the loop runs, and so after every key handled on the list
\* screen and after every consumed full-sync or quick-refresh completion
\* message, the cursor is 0 if the filtered list of the current view is
\* empty and an index into it otherwise; toggling the view sets it to 0.
C38_CursorStaysInRange ==
    /\ [](tui.running => CursorInRange(tui))
    /\ [][ListStep /\ tui'.running => CursorInRange(tui')]_vars
    /\ [][KeyToggleView => tui'.cursor = 0 /\ CursorInRange(tui')]_vars

\* The cursor stood on the second record of the list; a full sync deleted
\* one of the two, and the reloaded list of one record has the cursor on it.
C38_Witness ==
    /\ tui.running /\ tui.active_job = None
    /\ inflight = 0 /\ chan = <<>>
    /\ \E i \in LogEntries("write") : log[i].op = "delete"
    /\ Len(tui.prs) = 1
    /\ Len(filtered_indices(tui)) = 1
    /\ tui.cursor = 0

====
